---- MODULE Spec2Model ----
(***************************************************************************)
(* Risk-adjusted signal pipeline, backtest engine, live orchestrator and   *)
(* trading environment of Alpaca777MoneyMaker (src/src/risk/core.py,       *)
(* src/src/backtest/engine.py, src/src/app/orchestration.py,               *)
(* src/src/backend/rl/environment/basic_env.py).                           *)
(*                                                                         *)
(* Python floats are modelled as exact rationals <<n, d>> in lowest terms  *)
(* with d > 0, so every comparison and every division of the code is       *)
(* evaluated exactly; floating-point rounding is not modelled.             *)
(***************************************************************************)
EXTENDS Integers, Sequences, FiniteSets, TLC

(***************************************************************************)
(* Exact arithmetic standing for Python float arithmetic.                  *)
(***************************************************************************)
Abs(n) == IF n < 0 THEN -n ELSE n

RECURSIVE Gcd(_, _)
Gcd(a, b) == IF b = 0 THEN a ELSE Gcd(b, a % b)

Norm(n, d) ==
    LET s == IF d < 0 THEN -1 ELSE 1
        g == Gcd(Abs(n), Abs(d))
    IN  <<(s * n) \div g, (s * d) \div g>>

Q(n) == <<n, 1>>
Zero == Q(0)
One == Q(1)

RAdd(x, y) == Norm(x[1] * y[2] + y[1] * x[2], x[2] * y[2])
RSub(x, y) == Norm(x[1] * y[2] - y[1] * x[2], x[2] * y[2])
RMul(x, y) == Norm(x[1] * y[1], x[2] * y[2])
RDiv(x, y) == Norm(x[1] * y[2], x[2] * y[1])
RNeg(x) == <<-x[1], x[2]>>
RLt(x, y) == x[1] * y[2] < y[1] * x[2]
RLe(x, y) == x[1] * y[2] <= y[1] * x[2]
RGt(x, y) == RLt(y, x)
RGe(x, y) == RLe(y, x)
RAbs(x) == <<Abs(x[1]), x[2]>>
\* Python's min(a, b) and max(a, b): the first argument unless the second wins.
RMin(x, y) == IF RLt(y, x) THEN y ELSE x
RMax(x, y) == IF RGt(y, x) THEN y ELSE x

\* Python's s[-n:] for n >= 1: the last n elements, the whole of a shorter s.
LastN(s, n) == IF Len(s) <= n THEN s ELSE SubSeq(s, Len(s) - n + 1, Len(s))
\* Python's s[:-1].
ButLast(s) == IF Len(s) = 0 THEN s ELSE SubSeq(s, 1, Len(s) - 1)

(***************************************************************************)
(* Bars and the windows handed to the risk manager.                        *)
(***************************************************************************)
MaxBars == 3

MkBar(h, l, c) == [high |-> Q(h), low |-> Q(l), close |-> Q(c)]
BarSet == {MkBar(1, 1, 1), MkBar(2, 2, 2), MkBar(4, 2, 3)}

Windows(n) == UNION {[1..k -> BarSet] : k \in 0..n}

Closes(bars) == [i \in 1..Len(bars) |-> bars[i].close]

(***************************************************************************)
(* Indicators: risk/core.py ema and atr.                                   *)
(***************************************************************************)
RECURSIVE EmaFrom(_, _, _, _)
EmaFrom(values, i, e, k) ==
    IF i > Len(values) THEN e
    ELSE EmaFrom(values, i + 1,
                 RAdd(RMul(values[i], k), RMul(e, RSub(One, k))), k)

ema(values, period) ==
    IF Len(values) = 0 THEN Zero
    ELSE EmaFrom(values, 2, values[1], Norm(2, period + 1))

TrueRanges(bars) ==
    [j \in 1..(Len(bars) - 1) |->
        LET h == bars[j + 1].high
            l == bars[j + 1].low
            pc == bars[j].close
        IN  RMax(RMax(RSub(h, l), RAbs(RSub(h, pc))), RAbs(RSub(l, pc)))]

atr(bars, period) ==
    IF Len(bars) < period + 1 THEN Zero
    ELSE ema(LastN(TrueRanges(bars), period), period)

(***************************************************************************)
(* Risk managers: risk/core.py SimpleRisk and AtrStopsVolRisk.             *)
(***************************************************************************)
\* Constructor arguments of AtrStopsVolRisk (SimpleRisk reads max_pct only).
MkCfg(mp, vk, ap, re, sl, tp, pct, slp, tpp) ==
    [max_pct |-> mp, vol_k |-> vk, atr_p |-> ap, reg_ema |-> re,
     sl_atr |-> sl, tp_atr |-> tp, use_pct_stops |-> pct,
     sl_pct |-> slp, tp_pct |-> tpp]

RiskConfigs ==
    { \* ATR stops with tight multiples
      MkCfg(Norm(1, 5), Norm(1, 50), 2, 3, Norm(1, 2), Norm(1, 2), FALSE,
            Norm(3, 100), Norm(6, 100)),
      \* ATR stops with the default multiples and a one-bar ATR
      MkCfg(Norm(1, 5), Norm(1, 50), 1, 3, Q(2), Q(3), FALSE,
            Norm(3, 100), Norm(6, 100)),
      \* percentage stops
      MkCfg(Norm(1, 2), Q(1), 2, 3, Q(2), Q(3), TRUE,
            Norm(3, 100), Norm(6, 100)),
      \* a regime window longer than the history on offer
      MkCfg(Norm(1, 5), Norm(1, 50), 2, 5, Q(2), Q(3), FALSE,
            Norm(3, 100), Norm(6, 100)),
      \* zero cap and zero volatility target
      MkCfg(Zero, Zero, 2, 3, Q(2), Q(3), FALSE,
            Norm(3, 100), Norm(6, 100)),
      \* a one-bar regime window
      MkCfg(Norm(1, 2), Q(1), 1, 1, Q(2), Q(3), TRUE,
            Norm(3, 100), Norm(6, 100)) }

RawWeights == {Q(-1), Norm(1, 10), Q(1)}
RiskKeys == {<<"adam", "NG_F">>}
\* The keys of several bots and symbols sharing one manager.
RiskKeyPool == RiskKeys \cup {<<"adam", "CL_F">>, <<"ewa", "NG_F">>}

\* riskSolo[k] is a reference manager that receives only the calls made for
\* key k: its state map and the weight it returned last.
VARIABLES riskCfg, riskState, riskLast, riskSolo

riskVars == <<riskCfg, riskState, riskLast, riskSolo>>

\* The backtester's state (defined below), untouched by the risk managers.
VARIABLES btCfg, bt, btPrev

btVars == <<btCfg, bt, btPrev>>

\* The orchestrator's state (defined below): settings and bot config, the
\* PortfolioState with _last_ts, the data feed's latest bar, the broker, the
\* wall clock and a record of the latest step.
VARIABLES orchCfg, orch, feed, broker, clock, orchLast

orchVars == <<orchCfg, orch, feed, broker, clock, orchLast>>

\* The trading environment's state (defined below): config, aligned closes,
\* the five state fields, a record of the latest call and the results of
\* the steps taken since construction or the latest reset.
VARIABLES envCfg, envClose, env, envLast, envEpisode

envVars == <<envCfg, envClose, env, envLast, envEpisode>>

\* strat is the constructed strategy object (strategies/sma.py,
\* strategies/ema_rsi.py); stratCall is the latest call of target_weight or
\* of the module-level _rsi: its arguments and what it returned.
VARIABLES strat, stratCall
stratVars == <<strat, stratCall>>

\* mddCall is the latest call of backtest/report.py max_drawdown: the equity
\* series it was given and the value it returned.
VARIABLES mddCall
reportVars == <<mddCall>>

\* abCfg is the BrokerConfig of an AlpacaBroker of
\* backend/broker/alpaca_client.py with the presence of its TradingClient;
\* abCall is the public call in progress or finished last: its position in
\* the retry loop, the calls it made on the client and its outcome.
VARIABLES abCfg, abCall
abVars == <<abCfg, abCall>>

vars == <<riskCfg, riskState, riskLast, riskSolo, btCfg, bt, btPrev,
          orchCfg, orch, feed, broker, clock, orchLast,
          envCfg, envClose, env, envLast, envEpisode,
          strat, stratCall, mddCall, abCfg, abCall>>

FlatState == [in_pos |-> Zero, entry |-> Zero]

\* SimpleRisk.adjust_weight
SimpleAdjust(max_pct, raw_weight) == RMax(RMin(raw_weight, max_pct), Zero)

GetStateAllKeys(state, key) ==
    [k \in RiskKeyPool |-> IF k \in DOMAIN state THEN state[k] ELSE FlatState]

\* AtrStopsVolRisk._get_state: the map after the lazy insert.
GetState(state, key) ==
    IF key \in DOMAIN state THEN state
    ELSE [k \in DOMAIN state \cup {key} |->
             IF k = key THEN FlatState ELSE state[k]]

\* Mutant of RegimeOk: the earlier EMA is taken over the window without its
\* first element, so the two EMAs start from different seeds.
RegimeOkDropFirst(reg_ema, closes) ==
    LET ema100_hist == LastN(closes, reg_ema)
        ema100_now == ema(ema100_hist, reg_ema)
        ema100_prev == IF Len(ema100_hist) > 1
                       THEN ema(Tail(ema100_hist), reg_ema)
                       ELSE ema100_now
        price == closes[Len(closes)]
    IN  RGt(ema100_now, ema100_prev) /\ RGt(price, ema100_now)

\* Step 1: the regime filter's verdict on a window of closes.
RegimeOk(reg_ema, closes) ==
    LET ema100_hist == LastN(closes, reg_ema)
        ema100_now == ema(ema100_hist, reg_ema)
        ema100_prev == IF Len(ema100_hist) > 1
                       THEN ema(ButLast(ema100_hist), reg_ema)
                       ELSE ema100_now
        price == closes[Len(closes)]
    IN  RGt(ema100_now, ema100_prev) /\ RGt(price, ema100_now)

\* The indicators are pure, so their values over the bounded windows are
\* tabulated once; the comparison makes TLC build each table eagerly.
Memo(f) == IF f = f THEN f ELSE f

AtrMemo ==
    Memo([p \in {c.atr_p : c \in RiskConfigs} |->
            Memo([bars \in Windows(MaxBars) |-> atr(bars, p)])])

RegimeMemo ==
    Memo([p \in {c.reg_ema : c \in RiskConfigs} |->
            Memo([bars \in Windows(MaxBars) \ {<<>>} |->
                    RegimeOk(p, Closes(bars))])])

\* Mutant of RegimeRaw: the regime is judged on a history shorter than
\* reg_ema instead of forcing the weight to zero.
RegimeRawNoWarmup(cfg, raw_weight, bars) ==
    IF RegimeMemo[cfg.reg_ema][bars] THEN raw_weight ELSE Zero

RegimeRaw(cfg, raw_weight, bars) ==
    IF Len(bars) >= cfg.reg_ema
    THEN (IF RegimeMemo[cfg.reg_ema][bars] THEN raw_weight ELSE Zero)
    ELSE Zero

\* Step 2: the volatility-targeting cap.
AtrPct(a, price) == IF RGt(price, Zero) THEN RDiv(a, price) ELSE Zero

\* Mutant of VtCap: the volatility cap without the max_position_pct ceiling.
VtCapNoCeiling(cfg, a, price) ==
    LET atr_pct == AtrPct(a, price)
    IN  IF RGt(atr_pct, Zero) THEN RDiv(cfg.vol_k, atr_pct) ELSE cfg.max_pct

\* Mutant of VtCap: the ratio is inverted, ATR% over vol_k.
VtCapInverted(cfg, a, price) ==
    LET atr_pct == AtrPct(a, price)
    IN  IF RGt(atr_pct, Zero) /\ RGt(cfg.vol_k, Zero)
        THEN RMin(cfg.max_pct, RDiv(atr_pct, cfg.vol_k))
        ELSE cfg.max_pct

VtCap(cfg, a, price) ==
    LET atr_pct == AtrPct(a, price)
    IN  IF RGt(atr_pct, Zero)
        THEN RMin(cfg.max_pct, RDiv(cfg.vol_k, atr_pct))
        ELSE cfg.max_pct

\* Mutant of StopHit: the stop-loss test is lost, only take-profit exits.
StopHitTpOnly(cfg, entry, a, price) ==
    IF cfg.use_pct_stops
    THEN RGe(price, RMul(entry, RAdd(One, cfg.tp_pct)))
    ELSE RGt(a, Zero) /\ RGe(price, RAdd(entry, RMul(cfg.tp_atr, a)))

\* Mutant of StopHit: the take-profit test is lost, only stop-loss exits.
StopHitSlOnly(cfg, entry, a, price) ==
    IF cfg.use_pct_stops
    THEN RLe(price, RMul(entry, RSub(One, cfg.sl_pct)))
    ELSE RGt(a, Zero) /\ RLe(price, RSub(entry, RMul(cfg.sl_atr, a)))

\* Step 3: sl_hit or tp_hit, for a key that is in position with entry > 0.
StopHit(cfg, entry, a, price) ==
    LET sl_hit == IF cfg.use_pct_stops
                  THEN RLe(price, RMul(entry, RSub(One, cfg.sl_pct)))
                  ELSE RGt(a, Zero)
                       /\ RLe(price, RSub(entry, RMul(cfg.sl_atr, a)))
        tp_hit == IF cfg.use_pct_stops
                  THEN RGe(price, RMul(entry, RAdd(One, cfg.tp_pct)))
                  ELSE RGt(a, Zero)
                       /\ RGe(price, RAdd(entry, RMul(cfg.tp_atr, a)))
    IN  sl_hit \/ tp_hit

\* Steps 1-3: the weight returned for non-empty bars.
AdjustedWeight(cfg, st, raw_weight, bars) ==
    LET price == bars[Len(bars)].close
        raw == RegimeRaw(cfg, raw_weight, bars)
        a == AtrMemo[cfg.atr_p][bars]
        vt_cap == VtCap(cfg, a, price)
        w == RMax(RMin(raw, vt_cap), Zero)
        in_pos == RGt(st.in_pos, Zero)
    IN  IF in_pos /\ RGt(st.entry, Zero) /\ StopHit(cfg, st.entry, a, price)
        THEN Zero
        ELSE w

\* Mutant of UpdatedState: the entry price follows the close while held.
UpdatedStateTrailing(st, w, price) ==
    LET in_pos == RGt(st.in_pos, Zero)
    IN  IF RGt(w, Zero) THEN [in_pos |-> One, entry |-> price]
        ELSE IF in_pos /\ w = Zero THEN [in_pos |-> Zero, entry |-> Zero]
        ELSE st

\* Step 4: the entry/exit state after a call that returned w.
UpdatedState(st, w, price) ==
    LET in_pos == RGt(st.in_pos, Zero)
    IN  IF (~in_pos) /\ RGt(w, Zero) THEN [in_pos |-> One, entry |-> price]
        ELSE IF in_pos /\ w = Zero THEN [in_pos |-> Zero, entry |-> Zero]
        ELSE st

\* The record of a call: its arguments, the key's state before it (flat for
\* a key with no state yet) and the weight it returned.
CallRecord(mgr, key, raw_weight, bars, had, prev, w) ==
    [mgr |-> mgr, key |-> key, raw |-> raw_weight, bars |-> bars,
     had |-> had, prev |-> prev, w |-> w]

SoloStart == [k \in RiskKeyPool |-> [state |-> <<>>, w |-> Zero]]

\* AtrStopsVolRisk.adjust_weight(bot_id, symbol, raw_weight, bars)
AdjustWeight(key, raw_weight, bars) ==
    /\ UNCHANGED <<riskCfg, btVars, orchVars, envVars,
                 stratVars, reportVars, abVars>>
    /\ IF Len(bars) = 0
       THEN /\ UNCHANGED riskState
            /\ riskSolo' = [riskSolo EXCEPT ![key].w = Zero]
            /\ riskLast' = CallRecord("atr", key, raw_weight, bars,
                                      key \in DOMAIN riskState,
                                      IF key \in DOMAIN riskState
                                      THEN riskState[key] ELSE FlatState,
                                      Zero)
       ELSE \E state1 \in {GetState(riskState, key)} :
            \E w \in {AdjustedWeight(riskCfg, state1[key], raw_weight, bars)} :
               /\ riskState' =
                     [state1 EXCEPT ![key] =
                        UpdatedState(state1[key], w, bars[Len(bars)].close)]
               /\ riskLast' = CallRecord("atr", key, raw_weight, bars,
                                         key \in DOMAIN riskState,
                                         state1[key], w)
               \* the same call on the manager that serves this key only
               \* (evaluated once where both hold the same state)
               /\ \E solo1 \in {GetState(riskSolo[key].state, key)} :
                  \E sw \in {IF solo1[key] = state1[key] THEN w
                              ELSE AdjustedWeight(riskCfg, solo1[key],
                                                  raw_weight, bars)} :
                     riskSolo' =
                        [riskSolo EXCEPT ![key] =
                           [state |-> [solo1 EXCEPT ![key] =
                                         UpdatedState(solo1[key], sw,
                                                      bars[Len(bars)].close)],
                            w |-> sw]]

\* SimpleRisk.adjust_weight(bot_id, symbol, raw_weight, bars): stateless.
SimpleAdjustWeight(key, raw_weight, bars) ==
    /\ UNCHANGED <<riskCfg, riskState, riskSolo, btVars, orchVars, envVars,
                 stratVars, reportVars, abVars>>
    /\ riskLast' = CallRecord("simple", key, raw_weight, bars, FALSE, FlatState,
                              SimpleAdjust(riskCfg.max_pct, raw_weight))

(***************************************************************************)
(* Backtester: backtest/engine.py.  One instance (commission) runs one     *)
(* bar sequence after another; btPrev is the result returned last.         *)
(***************************************************************************)
WARMUP == 50
BtMaxTail == 3
BtPrefixClose == 1

BtPrices == {Q(0), Q(1), Q(2)}
BtCommissions == {Zero, Norm(1, 10)}
BtInitialCash == {Q(1000)}

\* Caller-supplied signal functions: pure functions of the window.
SignalFns ==
    {[kind |-> "const", w |-> Norm(1, 2)],
     [kind |-> "const", w |-> One],
     [kind |-> "momentum", w |-> Norm(3, 4)]}

SignalFn(sig, window) ==
    IF sig.kind = "const" THEN sig.w
    ELSE IF Len(window) >= 2
            /\ RGt(window[Len(window)].close, window[Len(window) - 1].close)
         THEN sig.w
         ELSE Zero

\* Bar sequences: WARMUP - 1 bars at the prefix close, then a free tail; and
\* the empty sequence.
BtBarSeqs ==
    {<<>>} \cup
    UNION {{[k \in 1..(WARMUP - 1 + t) |->
                IF k < WARMUP THEN [close |-> Q(BtPrefixClose)]
                ELSE [close |-> tail[k - WARMUP + 1]]] :
            tail \in [1..t -> BtPrices]} : t \in 0..BtMaxTail}

BtIdle == [pc |-> "idle", bars |-> <<>>, i |-> 0, cash |-> Zero,
           position |-> Zero, curve |-> <<>>, log |-> <<>>]

\* Mutant of BtWindow: the window also holds the bar at index i.
BtWindowPeek(bars, i) == SubSeq(bars, 1, i + 1)

\* window = bars[:i]
BtWindow(bars, i) == SubSeq(bars, 1, i)

\* Mutant of BtLoopDone: the loop gives up one index early.
BtLoopDoneEarly(bars, i) == i >= Len(bars) - 1

\* range(50, len(bars)) is exhausted at i
BtLoopDone(bars, i) == i >= Len(bars)

\* Mutant of BtTargetQty: the target is sized on cash instead of equity.
BtTargetQtyOnCash(w, cash, position, price) ==
    IF RGt(price, Zero) THEN RDiv(RMul(w, cash), price) ELSE Zero

\* target_qty = target_value / price if price > 0 else 0.0
BtTargetQty(w, cash, position, price) ==
    IF RGt(price, Zero)
    THEN RDiv(RMul(w, RAdd(cash, RMul(position, price))), price)
    ELSE Zero

\* Mutant of BtCashAfter: a sale is charged like a purchase.
BtCashAfterOneSided(cash, dq, price, commission) ==
    RSub(cash, RMul(RMul(dq, price), RAdd(One, commission)))

\* cash after the trade of dq at price
BtCashAfter(cash, dq, price, commission) ==
    IF RGt(dq, Zero)
    THEN RSub(cash, RMul(RMul(dq, price), RAdd(One, commission)))
    ELSE RAdd(cash, RMul(RMul(RNeg(dq), price), RSub(One, commission)))

\* Mutant of BtEquity: the position is marked at cost zero.
BtEquityCashOnly(cash, position, price) == cash

\* equity = cash + position * price
BtEquity(cash, position, price) == RAdd(cash, RMul(position, price))

\* One record per iteration: what the signal function was given, the trade
\* and the books before and after it.
BtLogEntry(i, window, price, w, cash0, pos0, dq, cash, position, equity) ==
    [i |-> i, nwin |-> Len(window), price |-> price, w |-> w,
     cash0 |-> cash0, pos0 |-> pos0, dq |-> dq,
     cash |-> cash, position |-> position, equity |-> equity]

\* Backtester.run(bars, signal_fn, initial_cash): entry, up to the loop.
BtRun(bars) ==
    /\ bt.pc \in {"idle", "done"}
    /\ bt' = [BtIdle EXCEPT !.pc = "loop", !.bars = bars, !.i = WARMUP,
                            !.cash = btCfg.initial_cash]
    /\ UNCHANGED <<btCfg, btPrev, riskVars, orchVars, envVars,
                 stratVars, reportVars, abVars>>

\* One iteration of the loop body.
BtIterate ==
    /\ bt.pc = "loop"
    /\ ~BtLoopDone(bt.bars, bt.i)
    /\ \E window \in {BtWindow(bt.bars, bt.i)} :
       \E price \in {window[Len(window)].close} :
       \E w \in {SignalFn(btCfg.signal, window)} :
       \E dq \in {RSub(BtTargetQty(w, bt.cash, bt.position, price),
                       bt.position)} :
       \E cash \in {BtCashAfter(bt.cash, dq, price, btCfg.commission)} :
       \E position \in {RAdd(bt.position, dq)} :
       \E equity \in {BtEquity(cash, position, price)} :
          bt' = [bt EXCEPT
                   !.i = bt.i + 1,
                   !.cash = cash,
                   !.position = position,
                   !.curve = Append(bt.curve, equity),
                   !.log = Append(bt.log,
                              BtLogEntry(bt.i, window, price, w, bt.cash,
                                         bt.position, dq, cash, position,
                                         equity))]
    /\ UNCHANGED <<btCfg, btPrev, riskVars, orchVars, envVars,
                 stratVars, reportVars, abVars>>

\* The loop is exhausted: return BacktestResult(curve).  The caller now
\* holds this result (btPrev) beside the input it came from.
BtReturn ==
    /\ bt.pc = "loop"
    /\ BtLoopDone(bt.bars, bt.i)
    /\ bt' = [bt EXCEPT !.pc = "done"]
    /\ btPrev' = [bars |-> bt.bars, curve |-> bt.curve]
    /\ UNCHANGED <<btCfg, riskVars, orchVars, envVars,
                 stratVars, reportVars, abVars>>

(***************************************************************************)
(* Orchestrator: app/orchestration.py with app/portfolio_service.py,       *)
(* app/order_service.py and the DryRunBroker of infra/alpaca_broker.py.    *)
(* The strategy and the risk manager are ports: a step receives the        *)
(* adjusted weight they return.  The data feed delivers bars one by one;   *)
(* clock is the wall clock in milliseconds as last read by a step.         *)
(***************************************************************************)
EPSILON == Norm(1, 1000)
MIN_QTY == Norm(1, 100)

ORDER_CLIENT_PREFIX == "alpaca777"
DEFAULT_TIF == "day"
OrchBot == "adam"
OrchSymbol == "NG_F"

OrchMaxBars == 3
OrchCloses == {Q(0), Q(100), Q(200)}
OrchWeights == {Zero, Norm(1, 2), One}
OrchCommissions == {Zero, Norm(1, 10)}
OrchInitialCash == {Q(1), Q(1000)}
\* Milliseconds that pass between two steps' readings of the clock.
OrchTicks == {400, 1000}

\* self._last_ts = None
NoTs == -1

NoOrder == [client_id |-> <<>>, symbol |-> "", side |-> "", qty |-> Zero,
            tif |-> ""]

\* PortfolioState.positions.get(symbol, 0.0)
PositionsGet(positions, symbol) ==
    IF symbol \in DOMAIN positions THEN positions[symbol] ELSE Zero

\* self.state.positions[symbol] = qty
PositionsSet(positions, symbol, qty) ==
    [s \in DOMAIN positions \cup {symbol} |->
        IF s = symbol THEN qty ELSE positions[s]]

compute_target_qty(target_weight, equity, price) ==
    IF RLe(price, Zero) THEN Zero
    ELSE RDiv(RMul(target_weight, equity), price)

delta_qty(current_qty, target_qty) == RSub(target_qty, current_qty)

GateSuppressedEpsilonOnly(dq) == RLt(RAbs(dq), EPSILON)

\* abs(dq) < max(EPSILON, MIN_QTY)
GateSuppressed(dq) == RLt(RAbs(dq), RMax(EPSILON, MIN_QTY))

\* int(time.time()) of a clock reading in milliseconds
ClockSeconds(now) == now \div 1000

make_order(client_prefix, bot_id, symbol, side, qty, tif, now) ==
    [client_id |-> <<client_prefix, bot_id, symbol, ClockSeconds(now)>>,
     symbol |-> symbol, side |-> side, qty |-> RAbs(qty), tif |-> tif]

\* Mutant of place_order: the fill replaces the held quantity instead of
\* adding to it.
place_order_overwrite(b, order, now) ==
    LET price == Q(100)
        sign == IF order.side = "buy" THEN One ELSE RNeg(One)
        new_qty == RMul(sign, order.qty)
    IN  [positions |->
            PositionsSet(b.positions, order.symbol,
                         [symbol |-> order.symbol, qty |-> new_qty,
                          avg_price |-> price,
                          market_value |-> RMul(new_qty, price)]),
         fills |-> Append(b.fills,
                          [client_id |-> order.client_id,
                           symbol |-> order.symbol, qty |-> order.qty,
                           price |-> price, ts |-> now])]

\* DryRunBroker.place_order: an immediate fill at the placeholder price.
place_order(b, order, now) ==
    LET price == Q(100)
        sign == IF order.side = "buy" THEN One ELSE RNeg(One)
        old_qty == IF order.symbol \in DOMAIN b.positions
                   THEN b.positions[order.symbol].qty ELSE Zero
        new_qty == RAdd(old_qty, RMul(sign, order.qty))
    IN  [positions |->
            PositionsSet(b.positions, order.symbol,
                         [symbol |-> order.symbol, qty |-> new_qty,
                          avg_price |-> price,
                          market_value |-> RMul(new_qty, price)]),
         fills |-> Append(b.fills,
                          [client_id |-> order.client_id,
                           symbol |-> order.symbol, qty |-> order.qty,
                           price |-> price, ts |-> now])]

\* lines 58-61: cash after a buy (dq > 0) or a sell
OrchCashAfter(cash, dq, price, commission) ==
    IF RGt(dq, Zero)
    THEN RSub(cash, RMul(RMul(RAbs(dq), price), RAdd(One, commission)))
    ELSE RAdd(cash, RMul(RMul(RAbs(dq), price), RSub(One, commission)))

\* calls counts what the step has asked of its collaborators so far:
\* strategy.target_weight (line 36), risk.adjust_weight (line 37) and
\* broker.place_order (line 54).
OrchStepRecord(kind, w, target_qty, current_qty, dq, order) ==
    [kind |-> kind, skipped |-> FALSE, ts |-> feed.ts, close |-> feed.close,
     w |-> w, target_qty |-> target_qty, current_qty |-> current_qty,
     dq |-> dq, order |-> order,
     calls |-> [strategy |-> orchLast.calls.strategy + 1,
                risk |-> orchLast.calls.risk + 1,
                orders |-> orchLast.calls.orders
                             + (IF order = NoOrder THEN 0 ELSE 1)],
     before |-> [cash |-> orch.cash, positions |-> orch.positions,
                 equity |-> orch.equity, fills |-> Len(broker.fills)],
     prev |-> [kind |-> orchLast.kind, w |-> orchLast.w,
               close |-> orchLast.close]]

OrchNoStep ==
    [kind |-> "none", skipped |-> FALSE, ts |-> NoTs, close |-> Zero,
     w |-> Zero, target_qty |-> Zero, current_qty |-> Zero, dq |-> Zero,
     order |-> NoOrder,
     calls |-> [strategy |-> 0, risk |-> 0, orders |-> 0],
     before |-> [cash |-> Zero, positions |-> <<>>, equity |-> Zero,
                 fills |-> 0],
     prev |-> [kind |-> "none", w |-> Zero, close |-> Zero]]

\* Mutant of NoNewBar: the new-bar test is lost.
NoNewBarNever(last_ts, ts) == FALSE

\* line 30: the latest bar is the one the previous acting step processed.
NoNewBar(last_ts, ts) == last_ts # NoTs /\ ts = last_ts

\* The data feed receives the next bar.
FeedNewBar(close) ==
    /\ feed.ts < OrchMaxBars
    /\ feed' = [ts |-> feed.ts + 1, close |-> close]
    /\ UNCHANGED <<orchCfg, orch, broker, clock, orchLast>>
    /\ UNCHANGED <<riskVars, btVars, envVars,
                 stratVars, reportVars, abVars>>

\* SingleBotOrchestrator.step(), the ports returning adjusted weight w and
\* the clock standing dt milliseconds after its previous reading.
OrchStep(w, dt) ==
    /\ UNCHANGED <<orchCfg, feed, riskVars, btVars, envVars,
                 stratVars, reportVars, abVars>>
    /\ IF NoNewBar(orch.last_ts, feed.ts)
       THEN /\ orchLast' = [orchLast EXCEPT !.skipped = TRUE]
            /\ UNCHANGED <<orch, broker, clock>>
       ELSE \E price \in {feed.close}, now \in {clock + dt} :
            \E current_qty \in {PositionsGet(orch.positions, OrchSymbol)} :
            \E target_qty \in {compute_target_qty(w, orch.equity, price)} :
            \E dq \in {delta_qty(current_qty, target_qty)} :
               /\ clock' = now
               /\ IF GateSuppressed(dq)
                  THEN /\ orch' = [orch EXCEPT !.last_ts = feed.ts]
                       /\ UNCHANGED broker
                       /\ orchLast' = OrchStepRecord("suppressed", w,
                                         target_qty, current_qty, dq, NoOrder)
                  ELSE \E side \in {IF RGt(dq, Zero) THEN "buy" ELSE "sell"} :
                       \E order \in {make_order(ORDER_CLIENT_PREFIX, OrchBot,
                                        OrchSymbol, side, RAbs(dq),
                                        DEFAULT_TIF, now)} :
                       \E cash \in {OrchCashAfter(orch.cash, dq, price,
                                                  orchCfg.commission)} :
                       \E new_qty \in {RAdd(current_qty, dq)} :
                          /\ broker' = place_order(broker, order, now)
                          /\ orch' = [last_ts |-> feed.ts, cash |-> cash,
                                      positions |->
                                        PositionsSet(orch.positions,
                                                     OrchSymbol, new_qty),
                                      equity |->
                                        RAdd(cash, RMul(new_qty, price))]
                          /\ orchLast' = OrchStepRecord("traded", w,
                                            target_qty, current_qty, dq, order)

(***************************************************************************)
(* Trading environment: backend/rl/environment/basic_env.py.  envClose is  *)
(* the aligned close series the constructor leaves in self._close (it is   *)
(* empty when no feature row is ready); an observation is identified by    *)
(* its row index; action_idx counts from 0 as in Python.                   *)
(***************************************************************************)
EnvMaxBars == 4
EnvCloseSet == {Q(4), Q(5)}
EnvSeries == UNION {[1..n -> EnvCloseSet] : n \in 0..EnvMaxBars}
EnvConfigs ==
    [costs_bp : {Zero, Q(500)}, action_set : {<<Zero, One>>},
     max_drawdown : {Norm(1, 5), Norm(1, 20)}]

n_steps(close) == Len(close)

\* self._ret[i]: 0.0 at row 0, close[i] / close[i-1] - 1 after it.
EnvRet(close, i) ==
    IF i = 0 THEN Zero ELSE RSub(RDiv(close[i + 1], close[i]), One)

\* __init__, lines 67-72
EnvFresh ==
    [t |-> 0, position |-> Zero, equity |-> One, equity_peak |-> One,
     done |-> FALSE]

EnvResetKeepPeak(e) ==
    [e EXCEPT !.t = 0, !.position = Zero, !.equity = One, !.done = FALSE]

\* reset, lines 87-91
EnvResetState(e) ==
    [e EXCEPT !.t = 0, !.position = Zero, !.equity = One,
              !.equity_peak = One, !.done = FALSE]

EnvStepAllowedAlways(e) == TRUE

\* line 95: a done environment refuses the step
EnvStepAllowed(e) == ~e.done

EnvCostAlways(cfg, target_pos, position) == RDiv(cfg.costs_bp, Q(10000))

\* lines 98-100
EnvCost(cfg, target_pos, position) ==
    IF target_pos # position
    THEN RMul(RAbs(RSub(target_pos, position)), RDiv(cfg.costs_bp, Q(10000)))
    ELSE Zero

\* The guard 1e-12 of line 112 is 1 / (EpsScale * EpsScale).
EpsScale == 1000000

\* x <= c * 1e-12 for fractions x = n/d and c = k/j, that is
\* n * j * 10^12 <= k * d, evaluated by two floor divisions.
LeTimesEps(x, c) ==
    IF c[1] >= 0
    THEN x[1] <= 0
           \/ x[1] * c[2] <= ((c[1] * x[2]) \div EpsScale) \div EpsScale
    ELSE x[1] < 0
           /\ ~((-x[1]) * c[2]
                  <= (((-c[1]) * x[2] - 1) \div EpsScale) \div EpsScale)

EnvBreachStrict(cfg, equity, equity_peak) ==
    RLt(RSub(RDiv(equity, equity_peak), One), RNeg(RAbs(cfg.max_drawdown)))

\* lines 112-113: equity / (equity_peak + 1e-12) - 1 <= -abs(max_drawdown).
\* As equity_peak >= 1, this is
\* equity - (1 - m) * equity_peak <= (1 - m) * 1e-12 with m = abs(max_drawdown).
EnvBreach(cfg, equity, equity_peak) ==
    LET c == RSub(One, RAbs(cfg.max_drawdown))
    IN  LeTimesEps(RSub(equity, RMul(c, equity_peak)), c)

EnvLastBarLate(t, n) == t >= n

\* line 118
EnvLastBar(t, n) == t >= n - 1

EnvResult(e, raised, target_pos, cost, reward, done, obs, info) ==
    [env |-> e, raised |-> raised, target_pos |-> target_pos, cost |-> cost,
     reward |-> reward, done |-> done, obs |-> obs, info |-> info]

\* step(action_idx) on an environment in state e: the state it leaves and
\* what it returns or raises.
EnvStepResult(cfg, close, e, action_idx) ==
    IF ~EnvStepAllowed(e)
    THEN EnvResult(e, "RuntimeError", Zero, Zero, Zero, FALSE, -1, "")
    ELSE
    LET target_pos == cfg.action_set[action_idx + 1]
        cost == EnvCost(cfg, target_pos, e.position)
        t_next == e.t + 1
    IN  IF t_next >= n_steps(close)
        THEN IF e.t < n_steps(close)
             THEN EnvResult([e EXCEPT !.done = TRUE], "", target_pos, cost,
                            Zero, TRUE, e.t, "end")
             ELSE \* self._obs[self.t] of an empty series
                  EnvResult([e EXCEPT !.done = TRUE], "IndexError",
                            target_pos, cost, Zero, FALSE, -1, "")
        ELSE
        LET reward == RSub(RMul(e.position, EnvRet(close, t_next)), cost)
            equity == RMul(e.equity, RAdd(One, reward))
            equity_peak == RMax(e.equity_peak, equity)
            e1 == [e EXCEPT !.position = target_pos, !.equity = equity,
                            !.equity_peak = equity_peak]
        IN  IF EnvBreach(cfg, equity, equity_peak)
            THEN EnvResult([e1 EXCEPT !.done = TRUE], "", target_pos, cost,
                           reward, TRUE, t_next, "max_drawdown")
            ELSE LET done == EnvLastBar(t_next, n_steps(close))
                 IN  EnvResult([e1 EXCEPT !.t = t_next,
                                          !.done = IF done THEN TRUE ELSE @],
                               "", target_pos, cost, reward, done, t_next,
                               "eq")

EnvCallRecord(op, r, action_idx, since) ==
    [op |-> op, raised |-> r.raised, action |-> action_idx,
     target_pos |-> r.target_pos, cost |-> r.cost, reward |-> r.reward,
     done |-> r.done, obs |-> r.obs, info |-> r.info, before |-> env,
     since |-> since]

EnvNoCall ==
    [op |-> "init", raised |-> "", action |-> -1, target_pos |-> Zero,
     cost |-> Zero, reward |-> Zero, done |-> FALSE, obs |-> -1, info |-> "",
     before |-> EnvFresh, since |-> [op |-> "init", from |-> EnvFresh]]

\* TradingEnv.step(action_idx)
EnvStep(action_idx) ==
    /\ action_idx + 1 \in DOMAIN envCfg.action_set
    /\ \E r \in {EnvStepResult(envCfg, envClose, env, action_idx)} :
          /\ env' = r.env
          /\ envLast' = EnvCallRecord("step", r, action_idx, envLast.since)
          /\ envEpisode' = IF r.raised = ""
                           THEN Append(envEpisode,
                                       [action |-> action_idx,
                                        reward |-> r.reward, done |-> r.done,
                                        info |-> r.info])
                           ELSE envEpisode
    /\ UNCHANGED <<envCfg, envClose, riskVars, btVars, orchVars,
                 stratVars, reportVars, abVars>>

\* TradingEnv.reset(): the fields are assigned, then self._obs[0] is read.
EnvReset ==
    /\ env' = EnvResetState(env)
    /\ envLast' =
          EnvCallRecord("reset",
             EnvResult(env, IF n_steps(envClose) = 0 THEN "IndexError" ELSE "",
                       Zero, Zero, Zero, FALSE,
                       IF n_steps(envClose) = 0 THEN -1 ELSE 0, ""),
             -1, [op |-> "reset", from |-> env])
    /\ envEpisode' = <<>>
    /\ UNCHANGED <<envCfg, envClose, riskVars, btVars, orchVars,
                 stratVars, reportVars, abVars>>

(***************************************************************************)
(* Strategies: strategies/sma.py and strategies/ema_rsi.py.  A strategy    *)
(* reads only the closes of the bars it is given, so a window is modelled  *)
(* as its sequence of closes.  Each call of target_weight receives the     *)
(* window of the call before it extended by one bar.                       *)
(***************************************************************************)
SmaMaxBars == 4
SmaCloses == {Q(1), Q(2), Q(3), Q(4)}
SmaPeriods == 1..4

EmaRsiMaxBars == 15
EmaRsiCloses == {Q(1), Q(2)}

RsiMaxBars == 4
RsiCloses == {Q(1), Q(2), Q(3)}
RsiPeriods == 1..3

\* The RSI period EmaRsiTrend passes to _rsi.
RSI_PERIOD == 14

NoStrategy == [kind |-> "none"]

RECURSIVE SeqSumFrom(_, _)
SeqSumFrom(xs, i) ==
    IF i > Len(xs) THEN Zero ELSE RAdd(xs[i], SeqSumFrom(xs, i + 1))
\* Python's sum(xs)
SeqSum(xs) == SeqSumFrom(xs, 1)

StratCallRecord(op, args, closes, raised, value) ==
    [op |-> op, args |-> args, closes |-> closes, raised |-> raised,
     value |-> value]

\* Mutant of SmaWeight: equal averages count as a crossover.
SmaWeightTies(s, closes) ==
    IF Len(closes) < s.slow THEN Zero
    ELSE LET f == RDiv(SeqSum(LastN(closes, s.fast)), Q(s.fast))
             sl == RDiv(SeqSum(LastN(closes, s.slow)), Q(s.slow))
         IN  IF RGe(f, sl) THEN One ELSE Zero

\* SmaCross.target_weight, lines 13-21, on the closes of bars.
SmaWeight(s, closes) ==
    IF Len(closes) < s.slow THEN Zero
    ELSE LET f == RDiv(SeqSum(LastN(closes, s.fast)), Q(s.fast))
             sl == RDiv(SeqSum(LastN(closes, s.slow)), Q(s.slow))
         IN  IF RGt(f, sl) THEN One
             ELSE IF RLt(f, sl) THEN Zero
             ELSE Zero

\* SmaCross(fast, slow): the assertion of line 8 fails the construction.
SmaCrossInit(fast, slow) ==
    /\ strat = NoStrategy
    /\ IF fast < slow
       THEN /\ strat' = [kind |-> "sma", fast |-> fast, slow |-> slow]
            /\ stratCall' = StratCallRecord("init", <<fast, slow>>, <<>>, "",
                                            Zero)
       ELSE /\ strat' = strat
            /\ stratCall' = StratCallRecord("init", <<fast, slow>>, <<>>,
                                            "AssertionError", Zero)
    /\ UNCHANGED <<riskVars, btVars, orchVars, envVars, reportVars, abVars>>

\* SmaCross.target_weight(symbol, bars)
SmaTargetWeight(close) ==
    /\ strat.kind = "sma"
    /\ Len(stratCall.closes) < SmaMaxBars
    /\ \E closes \in {Append(stratCall.closes, close)} :
          stratCall' = StratCallRecord("target_weight", <<>>, closes, "",
                                       SmaWeight(strat, closes))
    /\ UNCHANGED <<strat, riskVars, btVars, orchVars, envVars, reportVars,
                   abVars>>

\* ema_rsi.py _ema: the mean of a series shorter than the period, else the
\* recurrence seeded with the first element.
_ema(series, period) ==
    IF Len(series) < period THEN RDiv(SeqSum(series), Q(Len(series)))
    ELSE EmaFrom(series, 2, series[1], Norm(2, period + 1))

\* An RSI value is carried as whole + frac with 0 <= frac < 1: a value such
\* as 100 - 7/500000007 has no numerator of 32 bits.
MixedOf(x) ==
    [whole |-> x[1] \div x[2], frac |-> <<x[1] % x[2], x[2]>>]
\* 100.0 - c for 0 <= c <= 100
HundredMinus(c) ==
    IF c[1] % c[2] = 0
    THEN [whole |-> 100 - (c[1] \div c[2]), frac |-> Zero]
    ELSE [whole |-> 99 - (c[1] \div c[2]),
          frac |-> <<c[2] - (c[1] % c[2]), c[2]>>]
\* lo <= m and m <= hi for integers lo, hi
MixedGeInt(m, lo) == m.whole >= lo
MixedLeInt(m, hi) == m.whole < hi \/ (m.whole = hi /\ m.frac = Zero)

\* The floor of a zero average loss, 1e-9.
RsiEpsilon == Norm(1, 1000000000)

\* lines 17-21: gains and losses summed over closes[j+1] - closes[j] for j
\* from `j` to `last`.
RECURSIVE GainsLosses(_, _, _, _)
GainsLosses(closes, j, last, acc) ==
    IF j > last THEN acc
    ELSE LET d == RSub(closes[j + 1], closes[j])
         IN  GainsLosses(closes, j + 1, last,
                         IF RGe(d, Zero)
                         THEN [gains |-> RAdd(acc.gains, d),
                               losses |-> acc.losses]
                         ELSE [gains |-> acc.gains,
                               losses |-> RSub(acc.losses, d)])

\* lines 22-25
RsiValue(gains, losses, period) ==
    LET avg_gain == RDiv(gains, Q(period))
        avg_loss == IF RGt(losses, Zero) THEN RDiv(losses, Q(period))
                    ELSE RsiEpsilon
        rs == RDiv(avg_gain, avg_loss)
    IN  HundredMinus(RDiv(Q(100), RAdd(One, rs)))

\* ema_rsi.py _rsi(closes, period): range(-period, -1) visits the indices
\* -period .. -2, the positions Len - period + 1 .. Len - 1 counted from 1.
_rsi(closes, period) ==
    IF Len(closes) <= period THEN MixedOf(Q(50))
    ELSE LET gl == GainsLosses(closes, Len(closes) - period + 1,
                               Len(closes) - 1,
                               [gains |-> Zero, losses |-> Zero])
         IN  RsiValue(gl.gains, gl.losses, period)

IntMax(a, b) == IF a >= b THEN a ELSE b

\* Mutant of EmaRsiWeight: the warm-up waits for `slow` closes only.
EmaRsiWeightSlowOnly(s, closes) ==
    IF Len(closes) < s.slow THEN Zero
    ELSE LET hist == LastN(closes, s.slow)
             ema_f == _ema(hist, s.fast)
             ema_s == _ema(hist, s.slow)
             rsi == _rsi(closes, RSI_PERIOD)
         IN  IF /\ RGt(ema_f, ema_s)
                /\ MixedGeInt(rsi, s.rsi_min)
                /\ MixedLeInt(rsi, s.rsi_max)
             THEN s.target_w ELSE Zero

\* EmaRsiTrend.target_weight, lines 40-48, on the closes of bars.
EmaRsiWeight(s, closes) ==
    IF Len(closes) < IntMax(s.slow, RSI_PERIOD) THEN Zero
    ELSE LET hist == LastN(closes, s.slow)
             ema_f == _ema(hist, s.fast)
             ema_s == _ema(hist, s.slow)
             rsi == _rsi(closes, RSI_PERIOD)
         IN  IF /\ RGt(ema_f, ema_s)
                /\ MixedGeInt(rsi, s.rsi_min)
                /\ MixedLeInt(rsi, s.rsi_max)
             THEN s.target_w ELSE Zero

MkEmaRsi(fast, slow, rsi_min, rsi_max, target_w) ==
    [kind |-> "ema_rsi", fast |-> fast, slow |-> slow, rsi_min |-> rsi_min,
     rsi_max |-> rsi_max, target_w |-> target_w]

\* EmaRsiTrend(fast, slow, rsi_min, rsi_max, target_w) with fast < slow; the
\* last one waits for more closes than any history on offer holds.
EmaRsiConfigs ==
    { MkEmaRsi(1, 2, 35, 65, Norm(1, 5)),
      MkEmaRsi(2, 3, 35, 65, One),
      MkEmaRsi(1, 2, 50, 100, Norm(1, 5)),
      MkEmaRsi(1, EmaRsiMaxBars + 2, 35, 65, Norm(1, 5)) }

\* EmaRsiTrend.target_weight(symbol, bars)
EmaRsiTargetWeight(close) ==
    /\ strat.kind = "ema_rsi"
    /\ Len(stratCall.closes) < EmaRsiMaxBars
    /\ \E closes \in {Append(stratCall.closes, close)} :
          stratCall' = StratCallRecord("target_weight", <<>>, closes, "",
                                       EmaRsiWeight(strat, closes))
    /\ UNCHANGED <<strat, riskVars, btVars, orchVars, envVars, reportVars,
                   abVars>>

\* _rsi(closes, period), the series one close longer than in the call
\* before.
RsiCall(close, period) ==
    /\ Len(stratCall.closes) < RsiMaxBars
    /\ \E closes \in {Append(stratCall.closes, close)} :
          stratCall' = StratCallRecord("_rsi", <<period>>, closes, "",
                                       _rsi(closes, period))
    /\ UNCHANGED <<strat, riskVars, btVars, orchVars, envVars, reportVars,
                   abVars>>

(***************************************************************************)
(* Performance report: backtest/report.py max_drawdown.  Each call         *)
(* receives the equity series of the call before it extended by one value. *)
(***************************************************************************)
MddMaxLen == 4
MddEquities == {Q(-10), Zero, Q(90), Q(100), Q(110), Q(120)}

\* -math.inf, below every equity value
NegInf == <<-1, 0>>
PeakMax(peak, x) == IF peak = NegInf THEN x ELSE RMax(peak, x)

\* Mutant of MddLoop: the drawdown is measured from the highest value of
\* the whole series, later ones included.
RECURSIVE MddLoopGlobalPeak(_, _, _, _)
MddLoopGlobalPeak(equity, i, peak, mdd) ==
    IF i > Len(equity) THEN mdd
    ELSE LET top == CHOOSE x \in {equity[j] : j \in 1..Len(equity)} :
                       \A j \in 1..Len(equity) : RGe(x, equity[j])
         IN  MddLoopGlobalPeak(equity, i + 1, top,
                 RMax(mdd, IF RGt(top, Zero)
                           THEN RDiv(RSub(top, equity[i]), top)
                           ELSE Zero))

\* lines 6-8: the loop over the series from position i on.
RECURSIVE MddLoop(_, _, _, _)
MddLoop(equity, i, peak, mdd) ==
    IF i > Len(equity) THEN mdd
    ELSE LET peak1 == PeakMax(peak, equity[i])
         IN  MddLoop(equity, i + 1, peak1,
                     RMax(mdd, IF RGt(peak1, Zero)
                               THEN RDiv(RSub(peak1, equity[i]), peak1)
                               ELSE Zero))

max_drawdown(equity) == MddLoop(equity, 1, NegInf, Zero)

\* max_drawdown(equity)
MaxDrawdownCall(x) ==
    /\ Len(mddCall.equity) < MddMaxLen
    /\ \E equity \in {Append(mddCall.equity, x)} :
          mddCall' = [equity |-> equity, mdd |-> max_drawdown(equity)]
    /\ UNCHANGED <<riskVars, btVars, orchVars, envVars, stratVars, abVars>>

(***************************************************************************)
(* Brokerage adapter: backend/broker/alpaca_client.py AlpacaBroker.  A     *)
(* public call runs to its end unless it enters _with_retry; there each    *)
(* iteration of the loop is one step, the wrapped client method returning  *)
(* or raising as the network decides.                                      *)
(***************************************************************************)
\* _with_retry's defaults: tries = 3, base_delay = 0.5
DEFAULT_TRIES == 3
DEFAULT_BASE_DELAY == Norm(1, 2)

\* The largest `tries` passed to _with_retry directly.
RetryMaxTries == 4
RetryBaseDelays == {Norm(1, 2), One}

AbConfigs ==
    [dry_run : BOOLEAN, has_client : BOOLEAN, allow_extended_hours : BOOLEAN]

\* tif "None" stands for the argument left at None.
AbOrders ==
    [symbol : {"", " ", "NG"}, qty : {0, 1}, side : {"buy", "sell", "hold"},
     tif : {"None", "day", "gtc"}]
NoOrderArgs == [symbol |-> "", qty |-> 0, side |-> "", tif |-> "None"]

\* What one call of the wrapped client method does: it returns ("closed":
\* get_clock returns a clock with is_open false) or raises.
FnReturns == {"ok", "closed"}
FnNetworkErrors == {"ConnectionError", "Timeout"}
FnOutcomes == FnReturns \cup {"APIError", "ValueError"} \cup FnNetworkErrors

\* The client method each use of _with_retry wraps.
FnOf(phase) ==
    CASE phase = "preflight" -> "get_clock"
      [] phase = "submit" -> "submit_order"
      [] phase = "cancel" -> "cancel_orders"
      [] OTHER -> "fn"

NoClientCalls ==
    [get_clock |-> 0, submit_order |-> 0, cancel_orders |-> 0, fn |-> 0]

AbNoCall ==
    [op |-> "none", order |-> NoOrderArgs, pc |-> "done", phase |-> "",
     tries |-> 0, base_delay |-> Zero, attempt |-> 0, fn_calls |-> 0,
     sleeps |-> <<>>, outs |-> <<>>, client |-> NoClientCalls,
     raised |-> "", result |-> ""]

\* A public call that ends where it stands.
AbFinish(call, raised, result) ==
    [call EXCEPT !.pc = "done", !.raised = raised, !.result = result]

\* A public call enters _with_retry(fn, tries=..., base_delay=...).
AbRetryStart(call, phase, tries, base_delay) ==
    [call EXCEPT !.pc = "retry", !.phase = phase, !.tries = tries,
                 !.base_delay = base_delay, !.attempt = 0, !.fn_calls = 0,
                 !.sleeps = <<>>, !.outs = <<>>]

AbNewCall(op, order) == [AbNoCall EXCEPT !.op = op, !.order = order]

\* _validate_order: the exception it raises, "" for none.
ValidateOrder(order) ==
    IF order.symbol = "" \/ order.symbol = " " THEN "BrokerValidationError"
    ELSE IF order.qty <= 0 THEN "BrokerValidationError"
    ELSE IF order.side \notin {"buy", "sell"} THEN "BrokerValidationError"
    ELSE IF order.tif # "None" /\ order.tif \notin {"day"}
         THEN "BrokerValidationError"
    ELSE ""

\* Mutant of IsDryRun: the dry-run switch is ignored.
IsDryRunNever(cfg) == FALSE

\* self.cfg.dry_run, as cancel_all and submit_market_order test it.
IsDryRun(cfg) == cfg.dry_run

\* submit_market_order after the pre-flight check, lines 207-243.
AfterPreflight(cfg, call) ==
    IF IsDryRun(cfg) THEN AbFinish(call, "", "simulated")
    ELSE IF ~cfg.has_client THEN AbFinish(call, "BrokerAuthError", "")
    ELSE AbRetryStart(call, "submit", DEFAULT_TRIES, DEFAULT_BASE_DELAY)

\* AlpacaBroker.submit_market_order(symbol, qty, side, tif)
SubmitMarketOrder(order) ==
    /\ abCall.pc = "done"
    /\ \E call \in {AbNewCall("submit_market_order", order)} :
          abCall' =
             IF ValidateOrder(order) # ""
             THEN AbFinish(call, ValidateOrder(order), "")
             ELSE IF abCfg.allow_extended_hours \/ ~abCfg.has_client
             THEN AfterPreflight(abCfg, call)
             ELSE AbRetryStart(call, "preflight", DEFAULT_TRIES,
                               DEFAULT_BASE_DELAY)
    /\ UNCHANGED <<abCfg, riskVars, btVars, orchVars, envVars, stratVars,
                   reportVars>>

\* AlpacaBroker.cancel_all()
CancelAll ==
    /\ abCall.pc = "done"
    /\ \E call \in {AbNewCall("cancel_all", NoOrderArgs)} :
          abCall' =
             IF IsDryRun(abCfg) THEN AbFinish(call, "", "cancelled 0, dry run")
             ELSE IF ~abCfg.has_client
             THEN AbFinish(call, "BrokerAuthError", "")
             ELSE AbRetryStart(call, "cancel", DEFAULT_TRIES,
                               DEFAULT_BASE_DELAY)
    /\ UNCHANGED <<abCfg, riskVars, btVars, orchVars, envVars, stratVars,
                   reportVars>>

\* AlpacaBroker._with_retry(fn, tries=tries, base_delay=base_delay) called
\* on its own.
WithRetry(tries, base_delay) ==
    /\ abCall.pc = "done"
    /\ abCall' = AbRetryStart(AbNewCall("_with_retry", NoOrderArgs), "direct",
                              tries, base_delay)
    /\ UNCHANGED <<abCfg, riskVars, btVars, orchVars, envVars, stratVars,
                   reportVars>>

RECURSIVE Pow2(_)
Pow2(n) == IF n = 0 THEN 1 ELSE 2 * Pow2(n - 1)

\* Mutant of RetryMayRepeat: one retry too many.
RetryMayRepeatInclusive(attempt, tries) == attempt < tries

\* lines 296 and 305: another attempt is left.
RetryMayRepeat(attempt, tries) == attempt < tries - 1

\* What the caller of _with_retry does with its return value.
AfterReturn(cfg, call, outcome) ==
    CASE call.phase = "preflight" ->
            IF outcome = "closed"
            THEN AbFinish(call, "BrokerValidationError", "")
            ELSE AfterPreflight(cfg, call)
      [] call.phase = "submit" -> AbFinish(call, "", "placed")
      [] call.phase = "cancel" -> AbFinish(call, "", "cancelled")
      [] OTHER -> AbFinish(call, "", "returned")

\* The exception leaving the public method when _with_retry raises exc: the
\* callers turn an APIError into a BrokerError (or a subclass chosen by the
\* message) and let everything else through.
AfterRaise(call, exc) ==
    AbFinish(call,
             IF exc = "APIError" /\ call.phase # "direct" THEN "BrokerError"
             ELSE exc,
             "")

\* One iteration of the loop of _with_retry, lines 291-313.
RetryAttempt(outcome) ==
    /\ abCall.pc = "retry"
    /\ outcome = "closed" => abCall.phase = "preflight"
    /\ \E call \in {[abCall EXCEPT !.fn_calls = @ + 1,
                                   !.outs = Append(@, outcome),
                                   !.client[FnOf(abCall.phase)] = @ + 1]} :
          abCall' =
             IF outcome \in FnReturns THEN AfterReturn(abCfg, call, outcome)
             ELSE IF outcome = "APIError" \/ outcome \in FnNetworkErrors
             THEN IF RetryMayRepeat(call.attempt, call.tries)
                  THEN [call EXCEPT
                          !.sleeps = Append(@, RMul(call.base_delay,
                                                    Q(Pow2(call.attempt)))),
                          !.attempt = @ + 1]
                  ELSE AfterRaise(call,
                                  IF outcome = "APIError" THEN "APIError"
                                  ELSE "BrokerNetworkError")
             ELSE AfterRaise(call, outcome)
    /\ UNCHANGED <<abCfg, riskVars, btVars, orchVars, envVars, stratVars,
                   reportVars>>

(***************************************************************************)
(* Specifications: one per component, the other components at rest.        *)
(***************************************************************************)
RiskAtRest ==
    /\ riskCfg = MkCfg(Zero, Zero, 1, 1, Zero, Zero, FALSE, Zero, Zero)
    /\ riskState = <<>>
    /\ riskLast = CallRecord("none", <<>>, Zero, <<>>, FALSE, FlatState, Zero)
    /\ riskSolo = SoloStart

\* No orchestrator is constructed.
OrchAtRest ==
    /\ orchCfg = <<>>
    /\ orch = <<>>
    /\ feed = <<>>
    /\ broker = <<>>
    /\ clock = 0
    /\ orchLast = <<>>

\* No trading environment is constructed.
EnvAtRest ==
    /\ envCfg = <<>>
    /\ envClose = <<>>
    /\ env = <<>>
    /\ envLast = <<>>
    /\ envEpisode = <<>>

\* No strategy is constructed and none of its functions is called.
StratAtRest ==
    /\ strat = <<>>
    /\ stratCall = <<>>

\* No report is computed.
ReportAtRest == mddCall = <<>>

\* No AlpacaBroker is constructed.
AbAtRest ==
    /\ abCfg = <<>>
    /\ abCall = <<>>

BtAtRest ==
    /\ btCfg = [commission |-> Zero, signal |-> [kind |-> "const", w |-> Zero],
                initial_cash |-> Zero]
    /\ bt = BtIdle
    /\ btPrev = [bars |-> <<>>, curve |-> <<>>]

\* A risk manager is constructed; no backtest runs.
InitRisk ==
    /\ riskCfg \in RiskConfigs
    /\ riskState = <<>>
    /\ riskLast = CallRecord("none", <<>>, Zero, <<>>, FALSE, FlatState, Zero)
    /\ riskSolo = SoloStart
    /\ BtAtRest
    /\ OrchAtRest
    /\ EnvAtRest
    /\ StratAtRest
    /\ ReportAtRest
    /\ AbAtRest

NextRisk ==
    \/ \E key \in RiskKeys, raw \in RawWeights, bars \in Windows(MaxBars) :
          AdjustWeight(key, raw, bars)
    \/ \E key \in RiskKeys, raw \in RawWeights, bars \in Windows(1) :
          SimpleAdjustWeight(key, raw, bars)

SpecRisk == InitRisk /\ [][NextRisk]_vars

\* One AtrStopsVolRisk serves several (bot_id, symbol) keys; the callers
\* pass windows of flat bars and a raw weight of 1.
KeyWindows ==
    {w \in Windows(MaxBars) :
        \A i \in 1..Len(w) : w[i] \in {MkBar(1, 1, 1), MkBar(2, 2, 2)}}

KeyConfigs ==
    {cfg \in RiskConfigs :
        cfg.reg_ema = 3 /\ cfg.sl_atr = Q(2) /\ cfg.vol_k # Zero}

InitRiskKeys ==
    /\ riskCfg \in KeyConfigs
    /\ riskState = <<>>
    /\ riskLast = CallRecord("none", <<>>, Zero, <<>>, FALSE, FlatState, Zero)
    /\ riskSolo = SoloStart
    /\ BtAtRest
    /\ OrchAtRest
    /\ EnvAtRest
    /\ StratAtRest
    /\ ReportAtRest
    /\ AbAtRest

NextRiskKeys ==
    \E key \in RiskKeyPool, raw \in {Q(1)}, bars \in KeyWindows :
       AdjustWeight(key, raw, bars)

SpecRiskKeys == InitRiskKeys /\ [][NextRiskKeys]_vars

\* A Backtester is constructed; the risk managers are not used.
InitBt ==
    /\ btCfg \in [commission : BtCommissions, signal : SignalFns,
                  initial_cash : BtInitialCash]
    /\ bt = BtIdle
    /\ btPrev = [bars |-> <<>>, curve |-> <<>>]
    /\ RiskAtRest
    /\ OrchAtRest
    /\ EnvAtRest
    /\ StratAtRest
    /\ ReportAtRest
    /\ AbAtRest

NextBt ==
    \/ \E bars \in BtBarSeqs : BtRun(bars)
    \/ BtIterate
    \/ BtReturn

SpecBt == InitBt /\ [][NextBt]_vars

\* An orchestrator is constructed over a feed holding one bar and a fresh
\* DryRunBroker.
InitOrch ==
    /\ orchCfg \in [initial_cash : OrchInitialCash,
                    commission : OrchCommissions]
    /\ orch = [last_ts |-> NoTs, cash |-> orchCfg.initial_cash,
               positions |-> <<>>, equity |-> orchCfg.initial_cash]
    /\ feed \in [ts : {1}, close : OrchCloses]
    /\ broker = [positions |-> <<>>, fills |-> <<>>]
    /\ clock = 0
    /\ orchLast = OrchNoStep
    /\ RiskAtRest
    /\ BtAtRest
    /\ EnvAtRest
    /\ StratAtRest
    /\ ReportAtRest
    /\ AbAtRest

NextOrch ==
    \/ \E close \in OrchCloses : FeedNewBar(close)
    \/ \E w \in OrchWeights, dt \in OrchTicks : OrchStep(w, dt)

SpecOrch == InitOrch /\ [][NextOrch]_vars

\* A TradingEnv is constructed over an aligned series.
InitEnv ==
    /\ envCfg \in EnvConfigs
    /\ envClose \in EnvSeries
    /\ env = EnvFresh
    /\ envLast = EnvNoCall
    /\ envEpisode = <<>>
    /\ RiskAtRest
    /\ BtAtRest
    /\ OrchAtRest
    /\ StratAtRest
    /\ ReportAtRest
    /\ AbAtRest

NextEnv ==
    \/ \E action_idx \in 0..1 : EnvStep(action_idx)
    \/ EnvReset

SpecEnv == InitEnv /\ [][NextEnv]_vars

\* No SmaCross is constructed yet.
InitSma ==
    /\ strat = NoStrategy
    /\ stratCall = StratCallRecord("none", <<>>, <<>>, "", Zero)
    /\ RiskAtRest
    /\ BtAtRest
    /\ OrchAtRest
    /\ EnvAtRest
    /\ ReportAtRest
    /\ AbAtRest

NextSma ==
    \/ \E fast \in SmaPeriods, slow \in SmaPeriods : SmaCrossInit(fast, slow)
    \/ \E close \in SmaCloses : SmaTargetWeight(close)

SpecSma == InitSma /\ [][NextSma]_vars

\* An EmaRsiTrend is constructed.
InitEmaRsi ==
    /\ strat \in EmaRsiConfigs
    /\ stratCall = StratCallRecord("none", <<>>, <<>>, "", Zero)
    /\ RiskAtRest
    /\ BtAtRest
    /\ OrchAtRest
    /\ EnvAtRest
    /\ ReportAtRest
    /\ AbAtRest

NextEmaRsi == \E close \in EmaRsiCloses : EmaRsiTargetWeight(close)

SpecEmaRsi == InitEmaRsi /\ [][NextEmaRsi]_vars

\* _rsi is a module-level function: no strategy object is involved.
InitRsi ==
    /\ strat = NoStrategy
    /\ stratCall = StratCallRecord("none", <<>>, <<>>, "", Zero)
    /\ RiskAtRest
    /\ BtAtRest
    /\ OrchAtRest
    /\ EnvAtRest
    /\ ReportAtRest
    /\ AbAtRest

NextRsi == \E close \in RsiCloses, period \in RsiPeriods : RsiCall(close, period)

SpecRsi == InitRsi /\ [][NextRsi]_vars

\* max_drawdown was called on the empty series.
InitReport ==
    /\ mddCall = [equity |-> <<>>, mdd |-> max_drawdown(<<>>)]
    /\ RiskAtRest
    /\ BtAtRest
    /\ OrchAtRest
    /\ EnvAtRest
    /\ StratAtRest
    /\ AbAtRest

NextReport == \E x \in MddEquities : MaxDrawdownCall(x)

SpecReport == InitReport /\ [][NextReport]_vars

\* An AlpacaBroker is constructed.
InitBroker ==
    /\ abCfg \in AbConfigs
    /\ abCall = AbNoCall
    /\ RiskAtRest
    /\ BtAtRest
    /\ OrchAtRest
    /\ EnvAtRest
    /\ StratAtRest
    /\ ReportAtRest

NextBroker ==
    \/ \E order \in AbOrders : SubmitMarketOrder(order)
    \/ CancelAll
    \/ \E tries \in 1..RetryMaxTries, base_delay \in RetryBaseDelays :
          WithRetry(tries, base_delay)
    \/ \E outcome \in FnOutcomes : RetryAttempt(outcome)

\* A call of the client method returns or raises, and time.sleep ends: an
\* iteration of the retry loop that has begun is completed.
SpecBroker ==
    /\ InitBroker
    /\ [][NextBroker]_vars
    /\ WF_vars(\E outcome \in FnOutcomes : RetryAttempt(outcome))

(***************************************************************************)
(* Claims about the risk managers.  riskLast holds the latest call.        *)
(***************************************************************************)
KeyState(state, key) == IF key \in DOMAIN state THEN state[key] ELSE FlatState

LastPrice == riskLast.bars[Len(riskLast.bars)].close
LastAtr == atr(riskLast.bars, riskCfg.atr_p)
LastAtrCall == riskLast.mgr = "atr" /\ Len(riskLast.bars) > 0
HeldBefore == RGt(riskLast.prev.in_pos, Zero) /\ RGt(riskLast.prev.entry, Zero)
LastRegimePasses ==
    /\ Len(riskLast.bars) >= riskCfg.reg_ema
    /\ RegimeOk(riskCfg.reg_ema, Closes(riskLast.bars))

\* C1: every weight returned by SimpleRisk or AtrStopsVolRisk lies in
\* 0 .. max_position_pct, whatever the raw weight, the window and the state.
C1_WeightBounds ==
    riskLast.mgr # "none" =>
        RLe(Zero, riskLast.w) /\ RLe(riskLast.w, riskCfg.max_pct)

\* A raw weight above the cap came back clamped to a positive weight.
C1_Witness ==
    /\ riskLast.mgr = "atr"
    /\ RGt(riskLast.raw, riskCfg.max_pct)
    /\ RGt(riskLast.w, Zero)

SlLevelReached ==
    RLe(LastPrice, RSub(riskLast.prev.entry, RMul(riskCfg.sl_atr, LastAtr)))
TpLevelReached ==
    RGe(LastPrice, RAdd(riskLast.prev.entry, RMul(riskCfg.tp_atr, LastAtr)))

\* C2 as stated: in ATR-stop mode a held key whose last close is at or below
\* entry - sl_atr_mult * ATR gets weight 0.0, for whatever ATR the call
\* computes (zero included).
C2_StopLossAnyAtr ==
    (LastAtrCall /\ ~riskCfg.use_pct_stops /\ HeldBefore /\ SlLevelReached)
        => riskLast.w = Zero

\* C2 amended: the same, for a call whose ATR is positive.
C2_StopLossPositiveAtr ==
    (LastAtrCall /\ ~riskCfg.use_pct_stops /\ HeldBefore
        /\ RGt(LastAtr, Zero) /\ SlLevelReached)
        => riskLast.w = Zero

\* The stop-loss fired although the regime passed and the raw weight was > 0.
C2_Witness ==
    /\ LastAtrCall /\ ~riskCfg.use_pct_stops /\ HeldBefore
    /\ RGt(LastAtr, Zero) /\ SlLevelReached
    /\ LastRegimePasses /\ RGt(riskLast.raw, Zero)
    /\ riskLast.w = Zero

\* C3: a call changes a key's RiskState only flat -> held (w > 0, entry = the
\* window's last close) or held -> flat (w = 0, entry 0.0); every other call,
\* and every call with empty bars, leaves it as it was; a flat key has
\* entry 0.0.
C3_StepOk ==
    riskLast'.mgr = "atr" =>
        LET key == riskLast'.key
            bars == riskLast'.bars
            w == riskLast'.w
            before == KeyState(riskState, key)
            after == KeyState(riskState', key)
            held == RGt(before.in_pos, Zero)
        IN  /\ Len(bars) = 0 => riskState' = riskState
            /\ Len(bars) > 0 =>
                 after = IF (~held) /\ RGt(w, Zero)
                         THEN [in_pos |-> One, entry |-> bars[Len(bars)].close]
                         ELSE IF held /\ w = Zero THEN FlatState
                         ELSE before
            /\ \A k \in DOMAIN riskState' :
                 riskState'[k].in_pos = Zero => riskState'[k].entry = Zero

C3_Transitions == [][C3_StepOk]_vars

\* A held key was closed by the call: it is flat again with entry 0.0.
C3_Witness ==
    /\ LastAtrCall /\ HeldBefore /\ riskLast.w = Zero
    /\ riskState[riskLast.key] = FlatState

PctStopReached ==
    \/ RLe(LastPrice, RMul(riskLast.prev.entry, RSub(One, riskCfg.sl_pct)))
    \/ RGe(LastPrice, RMul(riskLast.prev.entry, RAdd(One, riskCfg.tp_pct)))

ExitsFlat == riskLast.w = Zero /\ riskState[riskLast.key] = FlatState

\* C4 as stated: a percentage stop, or in ATR mode close >= entry +
\* tp_atr_mult * ATR for whatever ATR, returns 0.0 and leaves the key flat.
C4_ExitAnyAtr ==
    (LastAtrCall /\ HeldBefore
        /\ IF riskCfg.use_pct_stops THEN PctStopReached ELSE TpLevelReached)
        => ExitsFlat

\* C4 amended: in ATR mode the take-profit needs a positive ATR.
C4_ExitPositiveAtr ==
    (LastAtrCall /\ HeldBefore
        /\ IF riskCfg.use_pct_stops THEN PctStopReached
           ELSE RGt(LastAtr, Zero) /\ TpLevelReached)
        => ExitsFlat

\* The ATR take-profit fired although the regime passed and raw weight > 0.
C4_Witness ==
    /\ LastAtrCall /\ HeldBefore /\ ~riskCfg.use_pct_stops
    /\ RGt(LastAtr, Zero) /\ TpLevelReached
    /\ LastRegimePasses /\ RGt(riskLast.raw, Zero)
    /\ ExitsFlat

\* C5: a weight > 0 is returned only for a window of at least regime_ema bars
\* whose EMA over the last regime_ema closes exceeds the EMA over the same
\* closes without the last one and lies below the last close; a shorter
\* window returns 0.0.
C5_RegimeGate ==
    riskLast.mgr = "atr" =>
        /\ RGt(riskLast.w, Zero) =>
             LET hist == LastN(Closes(riskLast.bars), riskCfg.reg_ema)
             IN  /\ Len(riskLast.bars) >= riskCfg.reg_ema
                 /\ RGt(ema(hist, riskCfg.reg_ema),
                        ema(ButLast(hist), riskCfg.reg_ema))
                 /\ RGt(LastPrice, ema(hist, riskCfg.reg_ema))
        /\ Len(riskLast.bars) < riskCfg.reg_ema => riskLast.w = Zero

\* A held key with a positive raw weight got 0.0 on a window one bar short
\* of regime_ema.
C5_Witness ==
    /\ LastAtrCall /\ HeldBefore /\ RGt(riskLast.raw, Zero)
    /\ Len(riskLast.bars) = riskCfg.reg_ema - 1
    /\ riskLast.w = Zero

KeyPresent(state, key) == key \in DOMAIN state

\* Every key's state is the state of a manager that was only ever called
\* for that key, and the weight returned last is the one that manager
\* returned.
C20_Shadow ==
    /\ \A k \in RiskKeyPool :
          /\ KeyPresent(riskState, k) <=> KeyPresent(riskSolo[k].state, k)
          /\ KeyPresent(riskState, k) => riskState[k] = riskSolo[k].state[k]
    /\ riskLast.mgr = "atr" => riskLast.w = riskSolo[riskLast.key].w

\* A call touches no key but its own, deletes nothing, and creates its
\* own key's state only when given bars, as flat with entry 0.0.
C20_StepOk ==
    \A k \in RiskKeyPool :
       /\ KeyPresent(riskState, k) => KeyPresent(riskState', k)
       /\ k # riskLast'.key =>
             /\ KeyPresent(riskState', k) <=> KeyPresent(riskState, k)
             /\ KeyPresent(riskState, k) => riskState'[k] = riskState[k]
       /\ (~KeyPresent(riskState, k) /\ KeyPresent(riskState', k)) =>
             /\ riskLast'.key = k
             /\ riskLast'.bars # <<>>
             /\ ~riskLast'.had
             /\ riskLast'.prev = [in_pos |-> Zero, entry |-> Zero]
       /\ (riskLast'.key = k /\ riskLast'.bars # <<>>) =>
             KeyPresent(riskState', k)

\* C20: AtrStopsVolRisk state is isolated per (bot_id, symbol) key: a call
\* for one key never creates or modifies another key's state, the weights
\* returned for a key depend only on the calls made with that key, and a
\* key's state is created on its first call with non-empty bars, flat with
\* entry 0.0, and persists.
C20_KeyIsolation == [](C20_Shadow) /\ [][C20_StepOk]_vars

\* Two keys of one bot hold different states while a call for a third,
\* never used, key arrives with no bars.
C20_Witness ==
    /\ KeyPresent(riskState, <<"adam", "NG_F">>)
    /\ KeyPresent(riskState, <<"adam", "CL_F">>)
    /\ ~KeyPresent(riskState, <<"ewa", "NG_F">>)
    /\ riskState[<<"adam", "NG_F">>].in_pos # Zero
    /\ riskState[<<"adam", "CL_F">>].in_pos = Zero
    /\ riskLast.key = <<"ewa", "NG_F">>
    /\ riskLast.bars = <<>>

\* The cap as the claim words it.
CapOf(max_pct, vol_k, atr_pct) ==
    IF RGt(atr_pct, Zero) THEN RMin(max_pct, RDiv(vol_k, atr_pct)) ELSE max_pct

VolKs == {Zero, Norm(1, 50), Norm(1, 10), One}
WithVolK(k) == [riskCfg EXCEPT !.vol_k = k]
LastAtrPct == IF RGt(LastPrice, Zero) THEN RDiv(LastAtr, LastPrice) ELSE Zero

\* C25: the volatility-targeting cap is min(max_position_pct, vol_k/atr_pct)
\* when atr_pct > 0 and max_position_pct otherwise (atr_pct = ATR/price, 0
\* when price <= 0); raising vol_k with everything else fixed never lowers
\* the cap, nor the weight returned for the same raw weight, window and
\* state.
C25_CapMonotone ==
    /\ \A a \in {Zero, One}, price \in {Q(-1), Zero} :
          VtCap(riskCfg, a, price) = riskCfg.max_pct
    /\ LastAtrCall =>
          /\ VtCap(riskCfg, LastAtr, LastPrice)
                = CapOf(riskCfg.max_pct, riskCfg.vol_k, LastAtrPct)
          /\ riskLast.w = AdjustedWeight(riskCfg, riskLast.prev, riskLast.raw,
                                         riskLast.bars)
          /\ \A k1, k2 \in VolKs \cup {riskCfg.vol_k} :
                RLe(k1, k2) =>
                   /\ RLe(VtCap(WithVolK(k1), LastAtr, LastPrice),
                          VtCap(WithVolK(k2), LastAtr, LastPrice))
                   /\ RLe(AdjustedWeight(WithVolK(k1), riskLast.prev,
                                         riskLast.raw, riskLast.bars),
                          AdjustedWeight(WithVolK(k2), riskLast.prev,
                                         riskLast.raw, riskLast.bars))

\* The volatility cap binds below max_position_pct on the latest call, and
\* a larger vol_k would have returned a larger weight.
C25_Witness ==
    /\ LastAtrCall
    /\ RGt(LastAtrPct, Zero)
    /\ RLt(RDiv(riskCfg.vol_k, LastAtrPct), riskCfg.max_pct)
    /\ RGt(riskLast.w, Zero)
    /\ riskLast.w = RDiv(riskCfg.vol_k, LastAtrPct)
    /\ \E k \in VolKs :
          RGt(AdjustedWeight(WithVolK(k), riskLast.prev, riskLast.raw,
                             riskLast.bars), riskLast.w)

\* C30: with regime_ema >= 2 the two regime conditions are equivalent: the
\* EMA over the window exceeds the EMA over the window without its last
\* element exactly when the last close exceeds the EMA over the window, so
\* the regime passes if and only if the last close is strictly above the EMA
\* of the closes before it in the window; with regime_ema = 1 the regime
\* never passes.
C30_RegimeEquivalence ==
    (LastAtrCall /\ Len(riskLast.bars) >= riskCfg.reg_ema) =>
        LET hist == LastN(Closes(riskLast.bars), riskCfg.reg_ema)
            now == ema(hist, riskCfg.reg_ema)
            before == ema(ButLast(hist), riskCfg.reg_ema)
            passes == RegimeOk(riskCfg.reg_ema, Closes(riskLast.bars))
        IN  /\ riskCfg.reg_ema >= 2 =>
                 /\ RGt(now, before) <=> RGt(LastPrice, now)
                 /\ passes <=> RGt(LastPrice, before)
                 /\ RGt(riskLast.w, Zero) => RGt(LastPrice, before)
            /\ riskCfg.reg_ema = 1 => (~passes /\ riskLast.w = Zero)

\* A window of exactly regime_ema closes whose last close lies above the EMA
\* of the closes before it was given a positive weight.
C30_Witness ==
    /\ LastAtrCall
    /\ riskCfg.reg_ema >= 2
    /\ Len(riskLast.bars) = riskCfg.reg_ema
    /\ RGt(LastPrice,
           ema(ButLast(Closes(riskLast.bars)), riskCfg.reg_ema))
    /\ RGt(riskLast.w, Zero)

(***************************************************************************)
(* Claims about the backtester.  bt.log holds one entry per iteration.     *)
(***************************************************************************)
\* The close of the bar at Python index i - 1 of the run's input.
BtExecClose(bars, i) == bars[i].close
BtSteps == Len(bt.curve)

\* C6: the value appended by an iteration equals cash + position * price with
\* the cash and position left by that iteration's trade and the close it
\* executed at.
C6_EquityIdentity ==
    /\ Len(bt.log) = BtSteps
    /\ \A j \in 1..BtSteps :
         bt.curve[j] =
            RAdd(bt.log[j].cash,
                 RMul(bt.log[j].position,
                      BtExecClose(bt.bars, WARMUP + j - 1)))
    /\ BtSteps > 0 =>
         /\ bt.log[BtSteps].cash = bt.cash
         /\ bt.log[BtSteps].position = bt.position

\* A position is held at a positive close after a second iteration.
C6_Witness ==
    /\ BtSteps >= 2
    /\ RGt(bt.position, Zero)
    /\ RGt(BtExecClose(bt.bars, WARMUP + BtSteps - 1), Zero)
    /\ bt.curve[BtSteps] # bt.cash

\* The first n bars of two sequences are the same.
SamePrefix(a, b, n) ==
    /\ Len(a) >= n
    /\ Len(b) >= n
    /\ \A k \in 1..n : a[k] = b[k]

\* C7: at step i the signal function gets bars[0:i] and the trade executes at
\* bars[i-1].close; two runs (same commission, signal function and initial
\* cash: the one in progress and the one that returned before it) whose
\* inputs agree on indices 0..i-1 have the same curve up to step i.
C7_NoLookAhead ==
    /\ \A j \in 1..Len(bt.log) :
         /\ bt.log[j].i = WARMUP + j - 1
         /\ bt.log[j].nwin = bt.log[j].i
         /\ bt.log[j].price = BtExecClose(bt.bars, bt.log[j].i)
    /\ \A j \in 1..BtSteps :
         (j <= Len(btPrev.curve)
            /\ SamePrefix(bt.bars, btPrev.bars, WARMUP + j - 1))
         => bt.curve[j] = btPrev.curve[j]

\* Two runs agree on the bars of their first two steps and differ later.
C7_Witness ==
    /\ bt.pc = "loop"
    /\ BtSteps >= 2
    /\ Len(btPrev.curve) >= 2
    /\ SamePrefix(bt.bars, btPrev.bars, WARMUP + 1)
    /\ bt.bars # btPrev.bars
    /\ RGt(bt.position, Zero)

\* C8: one value is appended per index from 50 to len(bars) - 1, so a
\* finished run has max(0, len(bars) - 50) values and called the signal
\* function as often; an input of at most 50 bars gives an empty curve.
C8_CurveLength ==
    /\ bt.pc = "loop" => BtSteps = bt.i - WARMUP
    /\ bt.pc = "done" =>
         /\ BtSteps = (IF Len(bt.bars) > WARMUP
                       THEN Len(bt.bars) - WARMUP ELSE 0)
         /\ Len(bt.log) = BtSteps

\* A finished run over 52 bars or more.
C8_Witness ==
    /\ bt.pc = "done"
    /\ Len(bt.bars) >= WARMUP + 2
    /\ BtSteps = Len(bt.bars) - WARMUP

\* C9: at a price > 0 the trade fills completely: dq is the target quantity
\* minus the position, a buy costs price*dq*(1+commission), a sale yields
\* price*|dq|*(1-commission), and equity after the trade is the
\* mark-to-market equity before it minus commission*price*|dq|.
C9_FullFill ==
    \A j \in 1..Len(bt.log) :
        LET e == bt.log[j]
            c == btCfg.commission
            before == RAdd(e.cash0, RMul(e.pos0, e.price))
            target == RDiv(RMul(e.w, before), e.price)
        IN  RGt(e.price, Zero) =>
              /\ e.dq = RSub(target, e.pos0)
              /\ e.position = target
              /\ RGt(e.dq, Zero) =>
                   e.cash = RSub(e.cash0,
                                 RMul(RMul(e.price, e.dq), RAdd(One, c)))
              /\ RLt(e.dq, Zero) =>
                   e.cash = RAdd(e.cash0,
                                 RMul(RMul(e.price, RAbs(e.dq)), RSub(One, c)))
              /\ e.equity = RSub(before, RMul(c, RMul(e.price, RAbs(e.dq))))

\* A sale at a positive price with a commission charged.
C9_Witness ==
    /\ Len(bt.log) >= 2
    /\ RGt(btCfg.commission, Zero)
    /\ RGt(bt.log[Len(bt.log)].price, Zero)
    /\ RLt(bt.log[Len(bt.log)].dq, Zero)

BtFlatRun ==
    /\ btCfg.commission = Zero
    /\ btCfg.signal.kind = "const"
    /\ \A k \in 1..Len(bt.bars) : bt.bars[k].close = bt.bars[1].close

\* C10: with commission 0, a constant weight and a constant close, equity
\* stays at initial_cash and no iteration after the first trades.
C10_FlatRun ==
    BtFlatRun =>
        \A j \in 1..Len(bt.log) :
            /\ bt.curve[j] = btCfg.initial_cash
            /\ j >= 2 =>
                 /\ bt.log[j].dq = Zero
                 /\ bt.log[j].cash = bt.log[j - 1].cash
                 /\ bt.log[j].position = bt.log[j - 1].position

\* A flat run that bought on its first step and went through a second one.
C10_Witness ==
    /\ BtFlatRun
    /\ Len(bt.log) >= 2
    /\ RGt(bt.log[1].dq, Zero)

(***************************************************************************)
(* Claims about the orchestrator.  orchLast holds the latest step that     *)
(* processed a new bar; its `before` is the PortfolioState it started      *)
(* from and its `prev` the step that processed the bar before.             *)
(***************************************************************************)
OrchProcessed == orchLast.kind \in {"suppressed", "traded"}
OrchQty == PositionsGet(orch.positions, OrchSymbol)
OrchStateKept ==
    /\ orch.cash = orchLast.before.cash
    /\ orch.positions = orchLast.before.positions
    /\ orch.equity = orchLast.before.equity

\* C11: a step whose |target_qty - current_qty| is below 0.01 builds and
\* sends no order and leaves cash, positions and equity as they were; an
\* order that is placed has qty = |dq| >= 0.01 and side "buy" exactly when
\* target_qty > current_qty.
C11_EpsilonGate ==
    OrchProcessed =>
      LET diff == RAbs(RSub(orchLast.target_qty, orchLast.current_qty))
          sent == Len(broker.fills) - orchLast.before.fills
      IN  /\ RLt(diff, Norm(1, 100)) =>
                /\ orchLast.order = NoOrder
                /\ sent = 0
                /\ OrchStateKept
          /\ orchLast.order # NoOrder =>
                /\ sent = 1
                /\ broker.fills[Len(broker.fills)].client_id
                      = orchLast.order.client_id
                /\ broker.fills[Len(broker.fills)].qty = orchLast.order.qty
                /\ orchLast.order.qty = diff
                /\ RGe(orchLast.order.qty, Norm(1, 100))
                /\ orchLast.order.side \in {"buy", "sell"}
                /\ orchLast.order.side = "buy"
                      <=> RGt(orchLast.target_qty, orchLast.current_qty)
          /\ sent = 0 => orchLast.order = NoOrder

\* A non-zero change below 0.01 is suppressed while a position is held.
C11_Witness ==
    /\ orchLast.kind = "suppressed"
    /\ orchLast.dq # Zero
    /\ orchLast.current_qty # Zero
    /\ Len(broker.fills) >= 1

\* C12: after a step that traded for weight w at close p, a following step
\* on a new bar with the same weight and the same close places no order
\* and leaves cash and positions unchanged, whatever the commission rate
\* and the account size.
C12_Idempotent ==
    ( /\ OrchProcessed
      /\ orchLast.prev.kind = "traded"
      /\ orchLast.prev.w = orchLast.w
      /\ orchLast.prev.close = orchLast.close )
    => /\ orchLast.order = NoOrder
       /\ Len(broker.fills) = orchLast.before.fills
       /\ orch.cash = orchLast.before.cash
       /\ orch.positions = orchLast.before.positions

\* C13: after every step that processed a new bar, traded or suppressed,
\* equity = cash + positions[symbol] * close of that bar.
C13_EquityIdentity ==
    OrchProcessed =>
      orch.equity = RAdd(orch.cash, RMul(OrchQty, orchLast.close))

\* C14: any two orders made during a run carry different client_id values.
C14_UniqueClientIds ==
    \A i, j \in 1..Len(broker.fills) :
       i # j => broker.fills[i].client_id # broker.fills[j].client_id

\* A step was taken: only steps write orchLast.
OrchStepTaken == orchLast' # orchLast

C26_Count ==
    /\ orchLast.calls.strategy <= feed.ts
    /\ orchLast.calls.risk = orchLast.calls.strategy
    /\ orchLast.calls.orders <= orchLast.calls.strategy
    /\ orch.last_ts = NoTs <=> orchLast.calls.strategy = 0

C26_StepOk ==
    OrchStepTaken =>
       IF orch.last_ts # NoTs /\ feed.ts = orch.last_ts
       THEN /\ orchLast'.skipped
            /\ orchLast'.calls = orchLast.calls
            /\ orch' = orch
            /\ broker' = broker
            /\ riskVars' = riskVars
       ELSE /\ ~orchLast'.skipped
            /\ orchLast'.ts = feed.ts
            /\ orch'.last_ts = feed.ts
            /\ orchLast'.calls.strategy = orchLast.calls.strategy + 1
            /\ orchLast'.calls.risk = orchLast.calls.risk + 1

\* C26: step acts at most once per bar: when the latest bar carries the
\* timestamp processed by the previous acting step, step returns without
\* calling the strategy or the risk manager, without placing an order and
\* without changing PortfolioState or RiskState; the first step after
\* construction always processes its bar.
C26_OncePerBar == [](C26_Count) /\ [][C26_StepOk]_vars

\* A step found no new bar: every bar so far was processed once, the latest
\* one by a step that traded.
C26_Witness ==
    /\ orchLast.skipped
    /\ orchLast.kind = "traded"
    /\ orch.last_ts = feed.ts
    /\ feed.ts >= 2
    /\ orchLast.calls.strategy = feed.ts
    /\ Len(broker.fills) = orchLast.calls.orders

BrokerQty ==
    IF OrchSymbol \in DOMAIN broker.positions
    THEN broker.positions[OrchSymbol].qty ELSE Zero

\* C27: after any sequence of steps against a fresh DryRunBroker the
\* broker's position quantity for the symbol equals state.positions[symbol]
\* (both absent before the first trade), and the broker holds one fill per
\* step that placed an order.
C27_BrokerAgrees ==
    /\ OrchSymbol \in DOMAIN broker.positions
          <=> OrchSymbol \in DOMAIN orch.positions
    /\ BrokerQty = OrchQty
    /\ Len(broker.fills) = orchLast.calls.orders
    /\ orchLast.calls.orders = 0 =>
          /\ broker.positions = <<>>
          /\ orch.positions = <<>>
    /\ DOMAIN broker.positions \subseteq {OrchSymbol}

\* Three steps, one of them suppressed, left two fills, the second a sale
\* of part of the position.
C27_Witness ==
    /\ orchLast.calls.strategy = 3
    /\ orchLast.calls.orders = 2
    /\ Len(broker.fills) = 2
    /\ orchLast.kind = "traded"
    /\ orchLast.order.side = "sell"
    /\ RGt(BrokerQty, Zero)

(***************************************************************************)
(* Claims about the trading environment.  envLast holds the latest call    *)
(* with the state it found (before); envEpisode holds what each step since *)
(* construction or the latest reset returned.                              *)
(***************************************************************************)
\* The latest call was a step that got past the end-of-series check.
EnvStepped ==
    envLast.op = "step" /\ envLast.raised = "" /\ envLast.info # "end"

EnvDrawdown == RSub(RDiv(env.equity, env.equity_peak), One)

C15_StepOk ==
    env.done =>
      /\ envLast'.op = "step" =>
            envLast'.raised = "RuntimeError" /\ env' = env
      /\ ~env'.done => envLast'.op = "reset"

\* C15: once the environment is done, every step raises and leaves t,
\* position, equity, equity_peak and done unchanged; only reset() makes
\* the environment ready again.
C15_DoneIsTerminal == [][C15_StepOk]_vars

\* A step was refused after a drawdown breach.
C15_Witness ==
    /\ env.done
    /\ envLast.op = "step"
    /\ envLast.raised = "RuntimeError"
    /\ envLast.before.done
    /\ RLt(env.equity, env.equity_peak)

\* C16: a step that updated equity and equity_peak ends the episode for
\* drawdown, returning its reward with the done flag, exactly when
\* equity / equity_peak - 1 <= -max_drawdown; above that the environment
\* is done only if the last bar was reached.
C16_DrawdownBoundary ==
    EnvStepped =>
      LET breach == RLe(EnvDrawdown, RNeg(envCfg.max_drawdown))
          last == env.t = n_steps(envClose) - 1
      IN  /\ breach <=> envLast.info = "max_drawdown"
          /\ breach =>
                /\ env.done /\ envLast.done
                /\ env.equity
                     = RMul(envLast.before.equity, RAdd(One, envLast.reward))
          /\ ~breach => (env.done <=> last) /\ (envLast.done <=> last)

\* The drawdown sits exactly on the boundary.
C16_Witness ==
    /\ EnvStepped
    /\ EnvDrawdown = RNeg(envCfg.max_drawdown)
    /\ envLast.info = "max_drawdown"
    /\ env.done

EnvActions(episode) == [i \in 1..Len(episode) |-> episode[i].action]

\* What the steps `actions` return, from state e on.
RECURSIVE EnvRun(_, _, _, _, _)
EnvRun(cfg, close, e, actions, i) ==
    IF i > Len(actions) THEN <<>>
    ELSE LET r == EnvStepResult(cfg, close, e, actions[i])
         IN  <<[action |-> actions[i], reward |-> r.reward, done |-> r.done,
                info |-> IF r.raised = "" THEN r.info ELSE r.raised]>>
             \o EnvRun(cfg, close, r.env, actions, i + 1)

EnvFieldsReset ==
    env = [t |-> 0, position |-> Zero, equity |-> One, equity_peak |-> One,
           done |-> FALSE]

\* The steps since the latest reset returned what a fresh environment
\* returns for the same actions.
EnvReplayAgrees ==
    envLast.since.op = "reset" =>
      envEpisode = EnvRun(envCfg, envClose, EnvFresh, EnvActions(envEpisode), 1)

\* C17 as stated: reset() in any state sets t = 0, position = 0,
\* equity = 1.0, equity_peak = 1.0, done = false and returns the first
\* observation; steps replayed after it return the same rewards and done
\* flags as on a fresh environment.
C17_ResetAnySeries ==
    /\ envLast.op = "reset" =>
          EnvFieldsReset /\ envLast.raised = "" /\ envLast.obs = 0
    /\ EnvReplayAgrees

\* C17 amended: the same, the first observation being returned when the
\* aligned series has at least one row; on an empty series reset() assigns
\* the fields and raises IndexError.
C17_ResetNonEmpty ==
    /\ envLast.op = "reset" =>
          /\ EnvFieldsReset
          /\ n_steps(envClose) >= 1 =>
                envLast.raised = "" /\ envLast.obs = 0
          /\ n_steps(envClose) = 0 => envLast.raised = "IndexError"
    /\ EnvReplayAgrees

\* A reset in a done state below its peak, followed by two steps.
C17_Witness ==
    /\ envLast.since.op = "reset"
    /\ envLast.since.from.done
    /\ RLt(envLast.since.from.equity, envLast.since.from.equity_peak)
    /\ RGt(envLast.since.from.equity_peak, One)
    /\ Len(envEpisode) >= 2
    /\ envEpisode[2].reward # Zero

\* C18: on N >= 2 rows the environment is done after at most N-1 steps,
\* after exactly N-1 without a drawdown breach, and t stays in 0..N-1; on
\* one row the first step sets done and returns reward 0.0 without
\* changing position or equity.
C18_Terminates ==
    LET n == n_steps(envClose)
        steps == Len(envEpisode)
    IN  /\ n >= 2 =>
              /\ env.t \in 0..(n - 1)
              /\ steps <= n - 1
              /\ ~env.done => steps < n - 1
              /\ ( /\ env.done
                   /\ \A i \in 1..steps : envEpisode[i].info # "max_drawdown" )
                 => steps = n - 1
        /\ n = 1 =>
              /\ env.t = 0
              /\ steps <= 1
              /\ steps = 1 =>
                    /\ env.done
                    /\ envEpisode[1].done
                    /\ envEpisode[1].reward = Zero
                    /\ env.position = Zero
                    /\ env.equity = One

\* An episode of three steps ran to the last of four rows.
C18_Witness ==
    /\ n_steps(envClose) >= 4
    /\ env.done
    /\ Len(envEpisode) = n_steps(envClose) - 1
    /\ \A i \in 1..Len(envEpisode) : envEpisode[i].info = "eq"
    /\ env.equity # One

\* C19: a step that does not hit the end of the series charges
\* cost = |target_pos - position| * costs_bp / 10000 (0 when they are
\* equal), returns reward = old position * return of row t+1 - cost, sets
\* position to the target, multiplies equity by 1 + reward and sets
\* equity_peak to max(equity_peak, equity); equity_peak >= equity always.
C19_StepArithmetic ==
    /\ RGe(env.equity_peak, env.equity)
    /\ EnvStepped =>
          LET b == envLast.before
              target == envCfg.action_set[envLast.action + 1]
              cost == RMul(RAbs(RSub(target, b.position)),
                           RDiv(envCfg.costs_bp, Q(10000)))
              ret == RSub(RDiv(envClose[b.t + 2], envClose[b.t + 1]), One)
              reward == RSub(RMul(b.position, ret), cost)
          IN  /\ envLast.cost = cost
              /\ target = b.position => envLast.cost = Zero
              /\ envLast.reward = reward
              /\ env.position = target
              /\ env.equity = RMul(b.equity, RAdd(One, reward))
              /\ env.equity_peak = RMax(b.equity_peak, env.equity)

\* A position is closed at a cost on a bar that moved.
C19_Witness ==
    /\ EnvStepped
    /\ envLast.cost # Zero
    /\ envLast.before.position # Zero
    /\ envLast.reward # RNeg(envLast.cost)
    /\ RLt(env.equity, env.equity_peak)

(***************************************************************************)
(* Claims about the strategies.  stratCall holds the latest call.          *)
(***************************************************************************)
\* The mean of the last `fast` closes exceeds the mean of the last `slow`.
SmaFastAbove(closes, fast, slow) ==
    RGt(RMul(SeqSum(LastN(closes, fast)), Q(slow)),
        RMul(SeqSum(LastN(closes, slow)), Q(fast)))

\* C21: SmaCross.target_weight returns 1.0 exactly when the window holds at
\* least `slow` closes and the mean of the last `fast` closes is strictly
\* greater than the mean of the last `slow` closes, and 0.0 otherwise; with
\* fast = 2, slow = 4 the closes 1, 2, 3, 4 give 1.0; constructing it with
\* fast >= slow fails.
C21_SmaCross ==
    /\ strat.kind = "sma" => strat.fast < strat.slow
    /\ stratCall.op = "init" =>
          /\ stratCall.raised = "AssertionError"
                <=> stratCall.args[1] >= stratCall.args[2]
          /\ stratCall.raised = "" <=> strat.kind = "sma"
          /\ stratCall.raised \in {"", "AssertionError"}
    /\ stratCall.op = "target_weight" =>
          /\ stratCall.value \in {Zero, One}
          /\ stratCall.value = One
                <=> /\ Len(stratCall.closes) >= strat.slow
                    /\ SmaFastAbove(stratCall.closes, strat.fast, strat.slow)
          /\ ( /\ strat.fast = 2 /\ strat.slow = 4
               /\ stratCall.closes = <<Q(1), Q(2), Q(3), Q(4)>> )
             => stratCall.value = One

\* SmaCross(2, 4) returned 1.0 on the closes 1, 2, 3, 4.
C21_Witness ==
    /\ strat = [kind |-> "sma", fast |-> 2, slow |-> 4]
    /\ stratCall.op = "target_weight"
    /\ stratCall.closes = <<Q(1), Q(2), Q(3), Q(4)>>
    /\ stratCall.value = One

\* C22: EmaRsiTrend.target_weight returns only 0.0 or target_w, never a
\* negative value: target_w exactly when the history holds at least
\* max(slow, 14) closes, EMA(fast) > EMA(slow) with both EMAs taken over the
\* last `slow` closes, and rsi_min <= RSI(14) of the full history <= rsi_max;
\* otherwise 0.0.
C22_EmaRsi ==
    stratCall.op = "target_weight" =>
        LET closes == stratCall.closes
            hist == LastN(closes, strat.slow)
            rsi == _rsi(closes, 14)
            enters == /\ Len(closes) >= IntMax(strat.slow, 14)
                      /\ RGt(_ema(hist, strat.fast), _ema(hist, strat.slow))
                      /\ MixedGeInt(rsi, strat.rsi_min)
                      /\ MixedLeInt(rsi, strat.rsi_max)
        IN  /\ stratCall.value \in {Zero, strat.target_w}
            /\ RGe(stratCall.value, Zero)
            /\ IF enters THEN stratCall.value = strat.target_w
               ELSE stratCall.value = Zero

\* target_w came back for a history of 15 closes, where the RSI is computed
\* and not the 50.0 of a short history.
C22_Witness ==
    /\ strat.kind = "ema_rsi"
    /\ stratCall.op = "target_weight"
    /\ Len(stratCall.closes) = 15
    /\ stratCall.value = strat.target_w
    /\ RGt(stratCall.value, Zero)
    /\ _rsi(stratCall.closes, 14) # MixedOf(Q(50))

\* The RSI over the trailing `period` close-to-close deltas.
RsiOverPeriodDeltas(closes, period) ==
    IF Len(closes) <= period THEN MixedOf(Q(50))
    ELSE LET gl == GainsLosses(closes, Len(closes) - period,
                               Len(closes) - 1,
                               [gains |-> Zero, losses |-> Zero])
         IN  RsiValue(gl.gains, gl.losses, period)

\* C23: rsi(closes, period) returns 50.0 when len(closes) <= period;
\* otherwise it sums gains and losses over the trailing `period`
\* close-to-close deltas, divides each by `period`, floors a zero average
\* loss to a small epsilon, and returns 100 - 100/(1 + avg_gain/avg_loss).
C23_RsiTrailingPeriod ==
    stratCall.op = "_rsi" =>
        stratCall.value
            = RsiOverPeriodDeltas(stratCall.closes, stratCall.args[1])


(***************************************************************************)
(* Claims about the performance report.  mddCall holds the latest call.    *)
(***************************************************************************)
\* peak_i = max(equity[1..i])
MddPeakAt(equity, i) ==
    CHOOSE x \in {equity[j] : j \in 1..i} : \A j \in 1..i : RGe(x, equity[j])

\* (peak_i - equity_i)/peak_i, 0 where the peak is not positive
MddTermAt(equity, i) ==
    IF RGt(MddPeakAt(equity, i), Zero)
    THEN RDiv(RSub(MddPeakAt(equity, i), equity[i]), MddPeakAt(equity, i))
    ELSE Zero

MddNonDecreasing(equity) ==
    \A i \in 1..(Len(equity) - 1) : RLe(equity[i], equity[i + 1])

\* C24: max_drawdown(equity) is the maximum over i of
\* (peak_i - equity_i)/peak_i with peak_i = max(equity[0..i]); it is 0.0 for
\* an empty or non-decreasing series, an index whose running peak is <= 0
\* contributes 0, and max_drawdown([100, 120, 90, 110]) = 0.25.
C24_MaxDrawdown ==
    LET equity == mddCall.equity
        terms == {MddTermAt(equity, i) : i \in 1..Len(equity)} \cup {Zero}
    IN  /\ mddCall.mdd \in terms
        /\ \A t \in terms : RGe(mddCall.mdd, t)
        /\ MddNonDecreasing(equity) => mddCall.mdd = Zero
        /\ equity = <<Q(100), Q(120), Q(90), Q(110)>>
              => mddCall.mdd = Norm(1, 4)

\* max_drawdown([100, 120, 90, 110]) returned 0.25.
C24_Witness ==
    /\ mddCall.equity = <<Q(100), Q(120), Q(90), Q(110)>>
    /\ mddCall.mdd = Norm(1, 4)


(***************************************************************************)
(* Claims about the brokerage adapter.  abCall holds the public call in    *)
(* progress or finished last; its tries, attempt, fn_calls, sleeps and     *)
(* outs describe the latest run of _with_retry within it.                  *)
(***************************************************************************)
AbFinished(op) == abCall.op = op /\ abCall.pc = "done"
AbLastOut == IF abCall.outs = <<>> THEN "" ELSE abCall.outs[Len(abCall.outs)]

\* A valid order: a symbol that is not blank, qty > 0, side buy or sell, tif
\* left out or 'day'.
AbValidOrder(order) ==
    /\ order.symbol \notin {"", " "}
    /\ order.qty > 0
    /\ order.side \in {"buy", "sell"}
    /\ order.tif \in {"None", "day"}

\* In dry run neither submit_order nor cancel_orders is invoked, cancel_all
\* returns cancelled = 0, and an invalid order raises BrokerValidationError
\* before any client call in either mode.
AbDryRunSafe ==
    /\ abCfg.dry_run =>
          abCall.client.submit_order = 0 /\ abCall.client.cancel_orders = 0
    /\ (AbFinished("submit_market_order") /\ ~AbValidOrder(abCall.order)) =>
          /\ abCall.raised = "BrokerValidationError"
          /\ abCall.client = NoClientCalls
    /\ (abCfg.dry_run /\ AbFinished("cancel_all")) =>
          /\ abCall.result = "cancelled 0, dry run"
          /\ abCall.raised = ""
          /\ abCall.client = NoClientCalls

\* C28 as stated: in dry run, whether or not a client exists, a valid order
\* returns a simulated result flagged dry_run.
C28_DryRunAlwaysSimulated ==
    /\ AbDryRunSafe
    /\ ( /\ abCfg.dry_run
         /\ AbFinished("submit_market_order")
         /\ AbValidOrder(abCall.order) )
       => abCall.result = "simulated" /\ abCall.raised = ""

\* C28, amended: in dry run a valid order returns a simulated result unless
\* the pre-flight market check, made through the client's get_clock when a
\* client exists and extended hours are not allowed, finds the market closed
\* or fails; without that check no client method is called at all.
C28_DryRunSimulatedAfterPreflight ==
    /\ AbDryRunSafe
    /\ ( /\ abCfg.dry_run
         /\ AbFinished("submit_market_order")
         /\ AbValidOrder(abCall.order) )
       => IF abCfg.has_client /\ ~abCfg.allow_extended_hours
          THEN /\ abCall.client.get_clock >= 1
               /\ \/ /\ AbLastOut = "ok"
                     /\ abCall.result = "simulated"
                     /\ abCall.raised = ""
                  \/ /\ AbLastOut = "closed"
                     /\ abCall.raised = "BrokerValidationError"
                     /\ abCall.result = ""
                  \/ /\ AbLastOut \notin FnReturns
                     /\ abCall.raised
                           \in {"BrokerError", "BrokerNetworkError",
                                "ValueError"}
                     /\ abCall.result = ""
          ELSE /\ abCall.result = "simulated"
               /\ abCall.raised = ""
               /\ abCall.client = NoClientCalls

\* A dry-run broker holding a client refused a valid order because
\* get_clock reported the market closed.
C28_Witness ==
    /\ abCfg.dry_run /\ abCfg.has_client /\ ~abCfg.allow_extended_hours
    /\ AbFinished("submit_market_order")
    /\ AbValidOrder(abCall.order)
    /\ AbLastOut = "closed"
    /\ abCall.raised = "BrokerValidationError"
    /\ abCall.client.get_clock = 2
    /\ abCall.client.submit_order = 0

AbRetryRan == abCall.tries > 0

C29_Counts ==
    AbRetryRan =>
       /\ abCall.fn_calls <= abCall.tries
       /\ abCall.fn_calls = Len(abCall.outs)
       /\ \A i \in 1..Len(abCall.sleeps) :
             abCall.sleeps[i] = RMul(abCall.base_delay, Q(2 ^ (i - 1)))
       /\ \A i \in 1..(Len(abCall.outs) - 1) :
             abCall.outs[i] \in {"APIError"} \cup FnNetworkErrors
       /\ abCall.pc = "retry" =>
             /\ abCall.attempt = abCall.fn_calls
             /\ Len(abCall.sleeps) = abCall.fn_calls
             /\ abCall.fn_calls < abCall.tries
             /\ AbLastOut \in {"", "APIError"} \cup FnNetworkErrors
       /\ abCall.pc = "done" =>
             /\ abCall.fn_calls >= 1
             /\ Len(abCall.sleeps) = abCall.fn_calls - 1
             /\ AbLastOut = "APIError" =>
                   /\ abCall.fn_calls = abCall.tries
                   /\ abCall.raised = (IF abCall.phase = "direct"
                                       THEN "APIError" ELSE "BrokerError")
             /\ AbLastOut \in FnNetworkErrors =>
                   /\ abCall.fn_calls = abCall.tries
                   /\ abCall.raised = "BrokerNetworkError"
             /\ (abCall.phase = "direct" /\ AbLastOut \in FnReturns) =>
                   abCall.raised = "" /\ abCall.result = "returned"

C29_StepOk ==
    /\ abCall.pc = "done" => abCall'.fn_calls = 0
    /\ abCall'.fn_calls # 0 =>
          /\ abCall.pc = "retry"
          /\ abCall'.fn_calls = abCall.fn_calls + 1
          /\ abCall'.tries = abCall.tries
    /\ (abCall.pc = "retry" /\ abCall'.pc = "retry" /\ abCall'.fn_calls # 0)
       => /\ abCall'.attempt = abCall.attempt + 1
          /\ abCall'.sleeps
                = Append(abCall.sleeps,
                         RMul(abCall.base_delay, Q(2 ^ abCall.attempt)))

\* C29: _with_retry(fn, tries) calls fn at most `tries` times whatever the
\* interleaving of API errors and network errors, returns the first
\* successful result without calling fn again, waits base_delay * 2**attempt
\* before each retry, re-raises the APIError or raises BrokerNetworkError
\* when the last attempt fails, and always comes to an end.
C29_WithRetry ==
    /\ [](C29_Counts)
    /\ [][C29_StepOk]_vars
    /\ (abCall.pc = "retry") ~> (abCall.pc = "done")

\* _with_retry(fn, tries=3) raised BrokerNetworkError after an API error, a
\* timeout and a connection error, having slept base_delay and twice that.
C29_Witness ==
    /\ AbFinished("_with_retry")
    /\ abCall.tries = 3
    /\ abCall.outs = <<"APIError", "Timeout", "ConnectionError">>
    /\ abCall.raised = "BrokerNetworkError"
    /\ abCall.sleeps = <<abCall.base_delay, RMul(Q(2), abCall.base_delay)>>


====
